---- MODULE Spec2Model ----
(***************************************************************************)
(* A model of the liner line editor: the Editor state machine              *)
(* (src/src/editor.rs) driven by the Vi keymap (src/src/keymap/vi.rs).     *)
(*                                                                         *)
(* Every handler of the program is a pure operator from a program state    *)
(* `s` (a record: the editor `ed`, the keymap `vi`, the context `ctx` and  *)
(* the terminal `io`) to the state it leaves behind.  The actions at the   *)
(* end of the module apply one handler to the current state.               *)
(*                                                                         *)
(* Characters are one-letter strings, a Key::Char(c) is the character c    *)
(* and the other keys are the strings "Esc", "Left", ...  An Option<T> is  *)
(* the empty sequence (None) or a one-element sequence (Some(v)).          *)
(***************************************************************************)
EXTENDS Integers, Sequences, FiniteSets, TLC

\* ------------------------------------------------------------------ bounds

\* Longest buffer a key or an operation may leave behind.
MaxLen == 3
\* Number of keys and operations of one editing session.
MaxKeys == 3
\* Largest count typed in front of a command.
MaxCount == 2

\* ----------------------------------------------------------------- options

None == <<>>

Some(v) == <<v>>

IsSome(o) == o # <<>>

Unwrap(o) == o[1]

Min(a, b) == IF a < b THEN a ELSE b

Max(a, b) == IF a > b THEN a ELSE b

\* The elements lo+1 .. hi of a sequence: the Rust range [lo, hi).
Slice(q, lo, hi) == SubSeq(q, lo + 1, hi)

\* -------------------------------------------------------------------- keys

\* The characters that are typed as text (each is a Normal-mode command too).
TextChars == {"a", "x", "\\"}

\* The characters that are typed as Normal-mode commands.
CommandChars ==
    {"i", "a", "A", "I", "s", "r", "d", "c", "D", "C", ".", "h", "l", "k", "j",
     "0", "2", "$", "x", "u", " "}

Digits == {"0", "1", "2", "3", "4", "5", "6", "7", "8", "9"}

DigitValue(c) ==
    CASE c = "0" -> 0 [] c = "1" -> 1 [] c = "2" -> 2 [] c = "3" -> 3
      [] c = "4" -> 4 [] c = "5" -> 5 [] c = "6" -> 6 [] c = "7" -> 7
      [] c = "8" -> 8 [] c = "9" -> 9

\* Key::Char(_): every character the model handles.
Chars == TextChars \cup CommandChars \cup Digits \cup {"\n", "\t"}

\* The keys that are not characters.
SpecialKeys ==
    {"Esc", "Left", "Right", "Up", "Down", "Home", "End", "Backspace", "Delete",
     "Ctrl-l", "Ctrl-r", "Ctrl-f", "Null"}

IsChar(key) == key \in Chars

\* ------------------------------------------------------------------ Buffer
\* The Buffer datatype: its characters and its undo and redo logs.

StartGroup == [t |-> "StartGroup", start |-> 0, text |-> <<>>]

EndGroup == [t |-> "EndGroup", start |-> 0, text |-> <<>>]

InsertAct(start, text) == [t |-> "Insert", start |-> start, text |-> text]

RemoveAct(start, text) == [t |-> "Remove", start |-> start, text |-> text]

BufferOf(data) == [data |-> data, actions |-> <<>>, undone_actions |-> <<>>]

num_chars(b) == Len(b.data)

buf_is_empty(b) == Len(b.data) = 0

char_before(b, cursor) ==
    IF cursor = 0 \/ cursor > Len(b.data) THEN None ELSE Some(b.data[cursor])

insert_raw(data, start, text) ==
    Slice(data, 0, start) \o text \o Slice(data, start, Len(data))

remove_raw(data, start, end) ==
    Slice(data, 0, start) \o Slice(data, end, Len(data))

push_action(b, act) ==
    [b EXCEPT !.actions = Append(@, act), !.undone_actions = <<>>]

buf_insert(b, start, text) ==
    push_action([b EXCEPT !.data = insert_raw(@, start, text)],
                InsertAct(start, text))

buf_remove(b, start, end) ==
    push_action([b EXCEPT !.data = remove_raw(@, start, end)],
                RemoveAct(start, Slice(b.data, start, end)))

buf_truncate(b, num) == buf_remove(b, num, Len(b.data))

copy_buffer(b, other) ==
    buf_insert(buf_remove(b, 0, Len(b.data)), 0, other.data)

insert_from_buffer(b, other) ==
    IF Len(b.data) < Len(other.data)
    THEN buf_insert(b, Len(b.data), Slice(other.data, Len(b.data), Len(other.data)))
    ELSE b

start_undo_group(b) == [b EXCEPT !.actions = Append(@, StartGroup)]

end_undo_group(b) == [b EXCEPT !.actions = Append(@, EndGroup)]

\* Action::undo: the inverse of one logged action on the characters.
act_undo(data, act) ==
    CASE act.t = "Insert" -> remove_raw(data, act.start, act.start + Len(act.text))
      [] act.t = "Remove" -> insert_raw(data, act.start, act.text)
      [] OTHER -> data

\* Action::do_on: one logged action applied again.
act_do_on(data, act) ==
    CASE act.t = "Insert" -> insert_raw(data, act.start, act.text)
      [] act.t = "Remove" -> remove_raw(data, act.start, act.start + Len(act.text))
      [] OTHER -> data

RECURSIVE undo_loop(_, _, _)
undo_loop(b, group_nest, group_count) ==
    IF b.actions = <<>> THEN b
    ELSE LET act == b.actions[Len(b.actions)]
             b1 == [data |-> act_undo(b.data, act),
                    actions |-> Slice(b.actions, 0, Len(b.actions) - 1),
                    undone_actions |-> Append(b.undone_actions, act)]
             nest == CASE act.t = "EndGroup" -> group_nest + 1
                       [] act.t = "StartGroup" -> group_nest - 1
                       [] OTHER -> group_nest
             cnt == CASE act.t = "EndGroup" -> 0
                      [] act.t = "StartGroup" -> group_count
                      [] OTHER -> group_count + 1
         IN  IF nest = 0 /\ cnt > 0 THEN b1 ELSE undo_loop(b1, nest, cnt)

buf_undo(b) == undo_loop(b, 0, 0)

buf_undo_did(b) == b.actions # <<>>

RECURSIVE redo_loop(_, _, _)
redo_loop(b, group_nest, group_count) ==
    IF b.undone_actions = <<>> THEN b
    ELSE LET act == b.undone_actions[Len(b.undone_actions)]
             b1 == [data |-> act_do_on(b.data, act),
                    actions |-> Append(b.actions, act),
                    undone_actions |-> Slice(b.undone_actions, 0, Len(b.undone_actions) - 1)]
             nest == CASE act.t = "StartGroup" -> group_nest + 1
                       [] act.t = "EndGroup" -> group_nest - 1
                       [] OTHER -> group_nest
             cnt == CASE act.t = "StartGroup" -> 0
                      [] act.t = "EndGroup" -> group_count
                      [] OTHER -> group_count + 1
         IN  IF nest = 0 /\ cnt > 0 THEN b1 ELSE redo_loop(b1, nest, cnt)

buf_redo(b) == redo_loop(b, 0, 0)

buf_redo_did(b) == b.undone_actions # <<>>

RECURSIVE revert_loop(_)
revert_loop(b) == IF buf_undo_did(b) THEN revert_loop(buf_undo(b)) ELSE b

buf_revert(b) == revert_loop(b)

buf_revert_did(b) == b.actions # <<>>

\* Buffer::starts_with and Buffer::contains, on the characters.
starts_with(data, pat) ==
    Len(pat) <= Len(data) /\ Slice(data, 0, Len(pat)) = pat

contains(data, pat) ==
    \E i \in 0..(Len(data) - Len(pat)) : Slice(data, i, i + Len(pat)) = pat

\* ----------------------------------------------------------------- History
\* The history of the context: a sequence of buffers, indexed from 0.

history_len(s) == Len(s.ctx.history)

history_at(s, i) == s.ctx.history[i + 1]

\* The elements of a finite set of numbers, in ascending order.
RECURSIVE Ascending(_)
Ascending(S) ==
    IF S = {} THEN <<>>
    ELSE LET m == CHOOSE i \in S : \A j \in S : j <= i
         IN  Append(Ascending(S \ {m}), m)

search_index(s, buf) ==
    Ascending({i \in 0..(history_len(s) - 1) :
                  contains(history_at(s, i).data, buf.data)})

get_history_subset(s, buf) ==
    Ascending({i \in 0..(history_len(s) - 1) :
                  starts_with(history_at(s, i).data, buf.data)})

get_newest_match(s, upper, buf) ==
    LET m == {i \in 0..(upper - 1) : starts_with(history_at(s, i).data, buf.data)}
    IN  IF m = {} THEN None ELSE Some(CHOOSE i \in m : \A j \in m : j <= i)

\* ------------------------------------------------------------------ Editor

is_search(s) == s.ed.reverse_search \/ s.ed.forward_search

\* clear_search with forward_search left as it is: C2 tells the two apart.
clear_search_keeping_forward(s) ==
    [s EXCEPT !.ed.reverse_search = FALSE,
              !.ed.history_subset_loc = None,
              !.ed.history_subset_index = <<>>]

\* clear_search with history_subset_loc left as it is: C3 tells the two apart.
clear_search_keeping_loc(s) ==
    [s EXCEPT !.ed.reverse_search = FALSE,
              !.ed.forward_search = FALSE,
              !.ed.history_subset_index = <<>>]

clear_search(s) ==
    [s EXCEPT !.ed.reverse_search = FALSE,
              !.ed.forward_search = FALSE,
              !.ed.history_subset_loc = None,
              !.ed.history_subset_index = <<>>]

\* The macro cur_buf!: the buffer being edited.
cur_buf(s) ==
    IF IsSome(s.ed.cur_history_loc)
    THEN history_at(s, Unwrap(s.ed.cur_history_loc))
    ELSE s.ed.new_buf

\* The macro cur_buf_mut!: taking the buffer for writing marks it changed.
cur_buf_mut(s) == [s EXCEPT !.ed.buffer_changed = TRUE]

\* A write through the reference cur_buf_mut! gives.
set_cur_buf(s, b) ==
    IF IsSome(s.ed.cur_history_loc)
    THEN [s EXCEPT !.ctx.history[Unwrap(s.ed.cur_history_loc) + 1] = b,
                   !.ed.buffer_changed = TRUE]
    ELSE [s EXCEPT !.ed.new_buf = b, !.ed.buffer_changed = TRUE]

show_autosuggestions(s) == IsSome(s.ed.show_completions_hint)

is_currently_showing_autosuggestion(s) == IsSome(s.ed.autosuggestion)

cursor_is_at_end_of_line(s) ==
    IF s.ed.no_eol
    THEN s.ed.cursor = num_chars(cur_buf(s)) - 1
    ELSE s.ed.cursor = num_chars(cur_buf(s))

\* search_history_loc that takes the first match whatever the selection: C8
\* tells the two apart.
search_history_loc_first(s) ==
    IF Len(s.ed.history_subset_index) > 0 /\ IsSome(s.ed.history_subset_loc)
    THEN Some(s.ed.history_subset_index[1])
    ELSE None

search_history_loc(s) ==
    IF Len(s.ed.history_subset_index) > 0 /\ IsSome(s.ed.history_subset_loc)
    THEN Some(s.ed.history_subset_index[Unwrap(s.ed.history_subset_loc) + 1])
    ELSE None

\* The loop of refresh_search: the position of the first match at or after
\* target_loc, or unchanged when there is none.
RECURSIVE closest_match(_, _, _, _, _)
closest_match(index, i, target_loc, forward, dflt) ==
    IF i >= Len(index) THEN dflt
    ELSE IF target_loc <= index[i + 1]
         THEN IF forward \/ target_loc = index[i + 1] \/ i = 0
              THEN Some(i) ELSE Some(i - 1)
         ELSE closest_match(index, i + 1, target_loc, forward, dflt)

\* refresh_search restarting at the first match of its direction, whatever was
\* selected before.
refresh_search_from_start(s, forward) ==
    LET index == search_index(s, s.ed.new_buf)
    IN  [s EXCEPT !.ed.history_subset_index = index,
                  !.ed.history_subset_loc =
                      IF Len(index) = 0 THEN None
                      ELSE IF forward THEN Some(0) ELSE Some(Len(index) - 1),
                  !.ed.reverse_search = ~forward,
                  !.ed.forward_search = forward,
                  !.ed.cur_history_loc = None,
                  !.ed.no_newline = TRUE,
                  !.ed.buffer_changed = FALSE]

refresh_search(s, forward) ==
    LET target == search_history_loc(s)
        index == search_index(s, s.ed.new_buf)
        start == IF forward THEN Some(0) ELSE Some(Len(index) - 1)
        loc == IF Len(index) > 0
               THEN IF IsSome(target)
                    THEN closest_match(index, 0, Unwrap(target), forward, start)
                    ELSE start
               ELSE None
    IN  [s EXCEPT !.ed.history_subset_index = index,
                  !.ed.history_subset_loc = loc,
                  !.ed.reverse_search = ~forward,
                  !.ed.forward_search = forward,
                  !.ed.cur_history_loc = None,
                  !.ed.no_newline = TRUE,
                  !.ed.buffer_changed = FALSE]

current_autosuggestion(s) ==
    IF is_search(s)
    THEN IF IsSome(search_history_loc(s))
         THEN Some(history_at(s, Unwrap(search_history_loc(s)))) ELSE None
    ELSE IF s.ed.show_autosuggestions
         THEN IF IsSome(s.ed.cur_history_loc)
              THEN Some(history_at(s, Unwrap(s.ed.cur_history_loc)))
              ELSE LET m == get_newest_match(s, history_len(s), s.ed.new_buf)
                   IN  IF IsSome(m) THEN Some(history_at(s, Unwrap(m))) ELSE None
         ELSE None

\* ---------------------------------------------------------------- terminal

\* One call that may fail with an I/O error (the terminal-width query, the
\* terminal-size query, the write and flush): it fails when it is the call
\* the environment has chosen to fail.
io_call(s) ==
    LET n == s.io.calls + 1
    IN  [s EXCEPT !.io.calls = n, !.io.err = (n = s.io.fail_at)]

\* The operator `?` (try!), as in `call?; rest`: the rest of a handler works
\* on the state the call leaves behind, and is skipped when the call failed.
\* The rest may take one or two more arguments.
Then(s1, rest(_)) == IF s1.io.err THEN s1 ELSE rest(s1)

Then1(s1, rest(_, _), a) == IF s1.io.err THEN s1 ELSE rest(s1, a)

Then2(s1, rest(_, _, _), a, b) == IF s1.io.err THEN s1 ELSE rest(s1, a, b)

\* Ok(v): the value a handler returns.
Ok(s, v) == [s EXCEPT !.ret = v]

\* What a redraw puts on the screen.
Screen(s) ==
    [data |-> cur_buf(s).data,
     cursor |-> s.ed.cursor,
     hint |-> s.ed.show_completions_hint,
     reverse_search |-> s.ed.reverse_search,
     forward_search |-> s.ed.forward_search,
     no_eol |-> s.ed.no_eol]

\* The clamping of the cursor to the length only, without the step back
\* under no_eol: C7 tells the two apart.
clamp_cursor_to_length(s) ==
    LET n == num_chars(cur_buf(s))
    IN  [s EXCEPT !.ed.cursor = IF n < @ THEN n ELSE @]

\* The clamping of the cursor in _display.
clamp_cursor(s) ==
    LET n == num_chars(cur_buf(s))
        c1 == IF n < s.ed.cursor THEN n ELSE s.ed.cursor
        c2 == IF s.ed.no_eol /\ c1 # 0 /\ c1 = n THEN c1 - 1 ELSE c1
    IN  [s EXCEPT !.ed.cursor = c2]

\* ------------------------------------------------- Editor: line-count math

\* Buffer::width and Buffer::range_width: the widths of the lines of a text,
\* split at its newlines (every character of the model is one cell wide).
RECURSIVE line_widths(_, _)
line_widths(data, w) ==
    IF data = <<>> THEN <<w>>
    ELSE IF data[1] = "\n" THEN <<w>> \o line_widths(Tail(data), 0)
    ELSE line_widths(Tail(data), w + 1)

buf_width(b) == line_widths(b.data, 0)

buf_range_width(b, start, end) == line_widths(Slice(b.data, start, end), 0)

\* The prompt of the editor.
Prompt == <<"$", " ">>

\* The decimal numeral of a number below 100.
Numeral(n) ==
    LET d == <<"0", "1", "2", "3", "4", "5", "6", "7", "8", "9">>
    IN  IF n < 10 THEN <<d[n + 1]>> ELSE <<d[(n \div 10) + 1], d[(n % 10) + 1]>>

\* Editor::search_prompt: the prompt of a redraw and the width of the prompt
\* in front of the cursor's text (the colour codes take no cell; the closing
\* back quote is written as a quote).
search_prompt(s) ==
    IF is_search(s)
    THEN [prompt |-> <<"(", "s", "e", "a", "r", "c", "h", ")", "'">>
                     \o cur_buf(s).data
                     \o <<"'", " ", "(">>
                     \o Numeral(IF Len(s.ed.history_subset_index) > 0
                                THEN (IF IsSome(s.ed.history_subset_loc)
                                      THEN Unwrap(s.ed.history_subset_loc)
                                      ELSE 0) + 1
                                ELSE 0)
                     \o <<"/">>
                     \o Numeral(Len(s.ed.history_subset_index))
                     \o <<")", ":", " ">>,
          rev_prompt_width |-> 9]
    ELSE [prompt |-> Prompt, rev_prompt_width |-> 0]

\* util::last_prompt_line_width: the width of the text after the last newline
\* of the prompt.
last_prompt_line_width(prompt) ==
    line_widths(prompt, 0)[Len(line_widths(prompt, 0))]

\* calc_width, the local function of _display, from the running total on.
RECURSIVE calc_width_from(_, _, _, _)
calc_width_from(total, prompt_width, buf_widths, terminal_width) ==
    IF buf_widths = <<>> THEN total
    ELSE calc_width_from(
            (IF total % terminal_width # 0
             THEN ((total \div terminal_width) + 1) * terminal_width
             ELSE total) + prompt_width + buf_widths[1],
            prompt_width, Tail(buf_widths), terminal_width)

calc_width(prompt_width, buf_widths, terminal_width) ==
    calc_width_from(0, prompt_width, buf_widths, terminal_width)

\* The widths of the lines _display lays out: the autosuggestion's when there
\* is one.
buf_widths(s) ==
    IF IsSome(s.ed.autosuggestion)
    THEN buf_width(Unwrap(s.ed.autosuggestion))
    ELSE buf_width(cur_buf(s))

\* The widths of the lines from the start to the cursor.
buf_widths_to_cursor(s) ==
    IF IsSome(s.ed.autosuggestion)
       /\ s.ed.cursor < num_chars(Unwrap(s.ed.autosuggestion))
    THEN buf_range_width(Unwrap(s.ed.autosuggestion), 0, s.ed.cursor)
    ELSE buf_range_width(cur_buf(s), 0, s.ed.cursor)

new_total_width(s) ==
    calc_width(last_prompt_line_width(search_prompt(s).prompt), buf_widths(s),
               s.io.width)

new_total_width_to_cursor(s) ==
    IF is_search(s)
    THEN calc_width(search_prompt(s).rev_prompt_width, buf_widths_to_cursor(s),
                    s.io.width)
    ELSE calc_width(last_prompt_line_width(search_prompt(s).prompt),
                    buf_widths_to_cursor(s), s.io.width)

\* new_num_lines - term_cursor_line, the lines between the last line of the
\* frame and the line of the cursor.
cursor_line_diff(total_width, total_width_to_cursor, terminal_width) ==
    (total_width + terminal_width) \div terminal_width
    - (total_width_to_cursor + terminal_width) \div terminal_width

\* _display placing the terminal cursor: unreachable!() panics when the
\* cursor's line is below the last line of the frame. The terminal keeps
\* track of a width to the cursor that exceeded the width of the frame.
cursor_placed(s, total_width, total_width_to_cursor) ==
    IF cursor_line_diff(total_width, total_width_to_cursor, s.io.width) < 0
    THEN [s EXCEPT !.io.err = TRUE, !.io.panicked = TRUE, !.io.overrun = TRUE]
    ELSE IF total_width_to_cursor > total_width
    THEN [s EXCEPT !.io.overrun = TRUE]
    ELSE s

place_cursor(s) ==
    cursor_placed(s, new_total_width(s), new_total_width_to_cursor(s))

\* print_completion_list(..)?, called by _display when a hint is present:
\* it asks the terminal for its size.
print_completion_list(s) ==
    IF IsSome(s.ed.show_completions_hint) THEN io_call(s) ELSE s

\* _display after the width query: the cursor is clamped and the frame is
\* composed in the output buffer.
compose_frame(s) ==
    Then(print_completion_list([clamp_cursor(s) EXCEPT !.io.staged = TRUE]),
         place_cursor)

\* _display, its end: self.out.write_all(..)? and self.out.flush().
write_frame(s) == io_call([s EXCEPT !.io.staged = FALSE])

\* The frame written is what the screen shows.
frame_shown(s) == [s EXCEPT !.io.shown = Screen(s)]

_display(s, show_autosuggest) ==
    Then(Then(Then(io_call(s),               \* util::terminal_width()?
                   compose_frame),
              write_frame),
         frame_shown)

\* display that keeps an autosuggestion it has stored before: C17 tells the
\* two apart.
set_autosuggestion_once(s) ==
    IF IsSome(s.ed.autosuggestion) THEN s
    ELSE [s EXCEPT !.ed.autosuggestion = current_autosuggestion(s)]

\* display, its first half: a search is refreshed when the buffer changed,
\* and the autosuggestion is recomputed.
set_autosuggestion(s) ==
    [s EXCEPT !.ed.autosuggestion = current_autosuggestion(s)]

display(s) ==
    _display(set_autosuggestion(IF is_search(s) /\ s.ed.buffer_changed
                                THEN refresh_search(s, s.ed.forward_search)
                                ELSE s),
             TRUE)

\* ------------------------------------------------- Editor: cursor movement

\* move_cursor_left moving under a completions hint as well: C28 tells the
\* two apart.
move_cursor_left_under_hint(s, count) ==
    display([s EXCEPT !.ed.cursor = IF count > @ THEN 0 ELSE @ - count,
                      !.ed.no_newline = TRUE])

move_cursor_left(s, count) ==
    IF show_autosuggestions(s) THEN display(s)
    ELSE LET c == IF count > s.ed.cursor THEN s.ed.cursor ELSE count
         IN  display([s EXCEPT !.ed.cursor = @ - c, !.ed.no_newline = TRUE])

move_cursor_right(s, count) ==
    IF show_autosuggestions(s) THEN display(s)
    ELSE LET room == num_chars(cur_buf(s)) - s.ed.cursor
             c == IF count > room THEN room ELSE count
         IN  display([s EXCEPT !.ed.cursor = @ + c, !.ed.no_newline = TRUE])

move_cursor_to(s, pos) ==
    LET buf_len == num_chars(cur_buf(s))
    IN  display([s EXCEPT !.ed.cursor = IF pos > buf_len THEN buf_len ELSE pos,
                          !.ed.no_newline = TRUE])

\* move_cursor_to_start_of_line without its redraw: C4 tells the two apart.
move_cursor_to_start_of_line_undrawn(s) ==
    [s EXCEPT !.ed.cursor = 0, !.ed.no_newline = TRUE]

move_cursor_to_start_of_line(s) ==
    display([s EXCEPT !.ed.cursor = 0, !.ed.no_newline = TRUE])

move_cursor_to_end_of_line(s) ==
    display([s EXCEPT !.ed.cursor = num_chars(cur_buf(s)), !.ed.no_newline = TRUE])

\* ------------------------------------------------------- Editor: insertion

insert_chars_after_cursor(s, cs) ==
    LET s1 == set_cur_buf(s, buf_insert(cur_buf(s), s.ed.cursor, cs))
    IN  display([s1 EXCEPT !.ed.cursor = @ + Len(cs), !.ed.no_newline = TRUE])

insert_str_after_cursor(s, str) == insert_chars_after_cursor(s, str)

\* insert_after_cursor that leaves the cursor before the inserted character:
\* C6 tells the two apart.
insert_after_cursor_cursor_kept(s, c) ==
    LET s1 == set_cur_buf(s, buf_insert(cur_buf(s), s.ed.cursor, <<c>>))
    IN  display([s1 EXCEPT !.ed.no_newline = TRUE])

insert_after_cursor(s, c) == insert_chars_after_cursor(s, <<c>>)

\* -------------------------------------------------------- Editor: deletion

\* delete_before_cursor that removes the character and leaves the cursor where
\* it was: C11 tells the two apart.
delete_before_cursor_cursor_kept(s) ==
    LET s1 == IF s.ed.cursor > 0
              THEN set_cur_buf(s, buf_remove(cur_buf(s), s.ed.cursor - 1, s.ed.cursor))
              ELSE s
    IN  display([s1 EXCEPT !.ed.no_newline = TRUE])

delete_before_cursor(s) ==
    LET s1 == IF s.ed.cursor > 0
              THEN [set_cur_buf(s, buf_remove(cur_buf(s), s.ed.cursor - 1, s.ed.cursor))
                       EXCEPT !.ed.cursor = @ - 1]
              ELSE s
    IN  display([s1 EXCEPT !.ed.no_newline = TRUE])

delete_after_cursor(s) ==
    LET s1 == IF s.ed.cursor < num_chars(cur_buf(s))
              THEN set_cur_buf(s, buf_remove(cur_buf(s), s.ed.cursor, s.ed.cursor + 1))
              ELSE cur_buf_mut(s)
    IN  display([s1 EXCEPT !.ed.no_newline = TRUE])

delete_all_before_cursor(s) ==
    LET s1 == set_cur_buf(s, buf_remove(cur_buf(s), 0, s.ed.cursor))
    IN  display([s1 EXCEPT !.ed.cursor = 0, !.ed.no_newline = TRUE])

delete_all_after_cursor(s) ==
    LET s1 == set_cur_buf(s, buf_truncate(cur_buf(s), s.ed.cursor))
    IN  display([s1 EXCEPT !.ed.no_newline = TRUE])

\* delete_until that leaves the cursor at the given position: C15 tells the
\* two apart.
delete_until_cursor_at_position(s, position) ==
    LET lo == Min(s.ed.cursor, position)
        hi == Max(s.ed.cursor, position)
        s1 == set_cur_buf(s, buf_remove(cur_buf(s), lo, hi))
    IN  display([s1 EXCEPT !.ed.cursor = position, !.ed.no_newline = TRUE])

delete_until(s, position) ==
    LET lo == Min(s.ed.cursor, position)
        hi == Max(s.ed.cursor, position)
        s1 == set_cur_buf(s, buf_remove(cur_buf(s), lo, hi))
    IN  display([s1 EXCEPT !.ed.cursor = lo, !.ed.no_newline = TRUE])

delete_until_inclusive(s, position) ==
    LET lo == Min(s.ed.cursor, position)
        hi == Max(s.ed.cursor + 1, position + 1)
        s1 == set_cur_buf(s, buf_remove(cur_buf(s), lo, hi))
    IN  display([s1 EXCEPT !.ed.cursor = lo, !.ed.no_newline = TRUE])

\* ------------------------------------------------------------------- words

InWord(i) == [k |-> "InWord", i |-> i, l |-> None, r |-> None]

OnWordLeftEdge(i) == [k |-> "OnWordLeftEdge", i |-> i, l |-> None, r |-> None]

OnWordRightEdge(i) == [k |-> "OnWordRightEdge", i |-> i, l |-> None, r |-> None]

InSpace(l, r) == [k |-> "InSpace", i |-> 0, l |-> l, r |-> r]

\* CursorPosition::get looking at the first word only: right of it the cursor
\* is taken to stand behind the last word.
CursorPosition_get_first_word(cursor, words) ==
    IF words = <<>> THEN InSpace(None, None)
    ELSE IF cursor = words[1][1] THEN OnWordLeftEdge(0)
    ELSE IF cursor < words[1][1] THEN InSpace(None, Some(0))
    ELSE IF cursor = words[1][2] THEN OnWordRightEdge(0)
    ELSE IF cursor < words[1][2] THEN InWord(0)
    ELSE InSpace(Some(Len(words) - 1), None)

\* The loop of CursorPosition::get over the words from index i on.
RECURSIVE cursor_position_scan(_, _, _)
cursor_position_scan(cursor, words, i) ==
    IF i >= Len(words) THEN InSpace(Some(Len(words) - 1), None)
    ELSE LET start == words[i + 1][1]
             end == words[i + 1][2]
         IN  IF start = cursor THEN OnWordLeftEdge(i)
             ELSE IF end = cursor THEN OnWordRightEdge(i)
             ELSE IF start < cursor /\ cursor < end THEN InWord(i)
             ELSE IF cursor < start THEN InSpace(Some(i - 1), Some(i))
             ELSE cursor_position_scan(cursor, words, i + 1)

CursorPosition_get(cursor, words) ==
    IF words = <<>> THEN InSpace(None, None)
    ELSE IF cursor = words[1][1] THEN OnWordLeftEdge(0)
    ELSE IF cursor < words[1][1] THEN InSpace(None, Some(0))
    ELSE cursor_position_scan(cursor, words, 0)

\* The word divider of the context: the runs of characters between spaces,
\* a character after a backslash never ending a word.
RECURSIVE word_scan(_, _, _, _, _)
word_scan(data, i, word_start, just_had_backslash, res) ==
    IF i >= Len(data)
    THEN IF IsSome(word_start)
         THEN Append(res, <<Unwrap(word_start), Len(data)>>) ELSE res
    ELSE LET c == data[i + 1]
         IN  IF c = "\\" THEN word_scan(data, i + 1, word_start, TRUE, res)
             ELSE IF IsSome(word_start)
                  THEN IF c = " " /\ ~just_had_backslash
                       THEN word_scan(data, i + 1, None, FALSE,
                                      Append(res, <<Unwrap(word_start), i>>))
                       ELSE word_scan(data, i + 1, word_start, FALSE, res)
                  ELSE IF c # " "
                       THEN word_scan(data, i + 1, Some(i), FALSE, res)
                       ELSE word_scan(data, i + 1, None, FALSE, res)

word_divider_fn(buf) == word_scan(buf.data, 0, None, FALSE, <<>>)

get_word_before_cursor(s, ignore_space_before_cursor) ==
    LET words == word_divider_fn(cur_buf(s))
        pos == CursorPosition_get(s.ed.cursor, words)
    IN  CASE pos.k = "InWord" -> Some(words[pos.i + 1])
          [] pos.k = "InSpace" ->
                IF IsSome(pos.l) /\ ignore_space_before_cursor
                THEN Some(words[Unwrap(pos.l) + 1]) ELSE None
          [] pos.k = "OnWordLeftEdge" ->
                IF ignore_space_before_cursor /\ pos.i > 0
                THEN Some(words[pos.i]) ELSE None
          [] pos.k = "OnWordRightEdge" -> Some(words[pos.i + 1])

delete_word_before_cursor(s, ignore_space_before_cursor) ==
    LET w == get_word_before_cursor(s, ignore_space_before_cursor)
        s1 == IF IsSome(w)
              THEN LET start == Unwrap(w)[1]
                       moved == s.ed.cursor - start
                   IN  [set_cur_buf(s, buf_remove(cur_buf(s), start, s.ed.cursor))
                           EXCEPT !.ed.cursor = @ - moved]
              ELSE s
    IN  display([s1 EXCEPT !.ed.no_newline = TRUE])

\* ------------------------------------------------ Editor: undo and history

\* undo that leaves the cursor where it is: C9 tells the two apart.
undo_cursor_kept(s) ==
    LET did == buf_undo_did(cur_buf(s))
        s1 == [set_cur_buf(s, buf_undo(cur_buf(s))) EXCEPT !.ret = did]
    IN  display([s1 EXCEPT !.ed.no_newline = TRUE])

undo(s) ==
    LET did == buf_undo_did(cur_buf(s))
        s1 == [set_cur_buf(s, buf_undo(cur_buf(s))) EXCEPT !.ret = did]
    IN  IF did THEN move_cursor_to_end_of_line(s1)
        ELSE display([s1 EXCEPT !.ed.no_newline = TRUE])

redo(s) ==
    LET did == buf_redo_did(cur_buf(s))
        s1 == [set_cur_buf(s, buf_redo(cur_buf(s))) EXCEPT !.ret = did]
    IN  IF did THEN move_cursor_to_end_of_line(s1)
        ELSE display([s1 EXCEPT !.ed.no_newline = TRUE])

revert(s) ==
    LET did == buf_revert_did(cur_buf(s))
        s1 == [set_cur_buf(s, buf_revert(cur_buf(s))) EXCEPT !.ret = did]
    IN  IF did THEN move_cursor_to_end_of_line(s1)
        ELSE display([s1 EXCEPT !.ed.no_newline = TRUE])

\* search stopping at the first and the last match instead of wrapping: C29
\* tells the two apart.
search_without_wrap(s, forward) ==
    IF ~is_search(s) THEN display(refresh_search(s, forward))
    ELSE IF Len(s.ed.history_subset_index) > 0 /\ IsSome(s.ed.history_subset_loc)
    THEN display([s EXCEPT !.ed.history_subset_loc =
                     IF forward
                     THEN Some(Min(Unwrap(@) + 1, Len(s.ed.history_subset_index) - 1))
                     ELSE Some(Max(Unwrap(@) - 1, 0))])
    ELSE display(s)

search(s, forward) ==
    LET n == Len(s.ed.history_subset_index)
        s1 == IF ~is_search(s) THEN refresh_search(s, forward)
              ELSE IF n > 0
                   THEN [s EXCEPT !.ed.history_subset_loc =
                            IF IsSome(@)
                            THEN IF forward
                                 THEN IF Unwrap(@) < n - 1
                                      THEN Some(Unwrap(@) + 1) ELSE Some(0)
                                 ELSE IF Unwrap(@) > 0
                                      THEN Some(Unwrap(@) - 1) ELSE Some(n - 1)
                            ELSE None]
                   ELSE s
    IN  display(s1)

clear(s) ==
    display(clear_search([s EXCEPT !.io.staged = TRUE,
                                   !.ed.no_newline = TRUE]))

move_up(s) ==
    IF show_autosuggestions(s) THEN s
    ELSE IF is_search(s) THEN search(s, FALSE)
    ELSE LET loc == s.ed.history_subset_loc
             subset == get_history_subset(s, s.ed.new_buf)
             s1 == IF num_chars(s.ed.new_buf) > 0
                   THEN IF IsSome(loc) /\ Unwrap(loc) > 0
                        THEN [s EXCEPT
                                !.ed.history_subset_loc = Some(Unwrap(loc) - 1),
                                !.ed.cur_history_loc =
                                    Some(s.ed.history_subset_index[Unwrap(loc)])]
                        ELSE IF ~IsSome(loc)
                        THEN IF Len(subset) > 0
                             THEN [s EXCEPT
                                     !.ed.history_subset_index = subset,
                                     !.ed.history_subset_loc = Some(Len(subset) - 1),
                                     !.ed.cur_history_loc = Some(subset[Len(subset)])]
                             ELSE [s EXCEPT !.ed.history_subset_index = subset]
                        ELSE s
                   ELSE IF IsSome(s.ed.cur_history_loc)
                        THEN IF Unwrap(s.ed.cur_history_loc) > 0
                             THEN [s EXCEPT !.ed.cur_history_loc = Some(Unwrap(@) - 1)]
                             ELSE s
                        ELSE IF history_len(s) > 0
                             THEN [s EXCEPT !.ed.cur_history_loc =
                                                Some(history_len(s) - 1)]
                             ELSE s
         IN  move_cursor_to_end_of_line(s1)

\* move_down leaving the subset at once: C27 tells the two apart.
move_down_leaving_subset(s) ==
    IF show_autosuggestions(s) THEN s
    ELSE IF is_search(s) THEN search(s, TRUE)
    ELSE move_cursor_to_end_of_line(
             [s EXCEPT !.ed.cur_history_loc = None,
                       !.ed.history_subset_loc = None,
                       !.ed.history_subset_index = <<>>])

move_down(s) ==
    IF show_autosuggestions(s) THEN s
    ELSE IF is_search(s) THEN search(s, TRUE)
    ELSE LET loc == s.ed.history_subset_loc
             s1 == IF num_chars(s.ed.new_buf) > 0
                   THEN IF IsSome(loc)
                        THEN IF Unwrap(loc) < Len(s.ed.history_subset_index) - 1
                             THEN [s EXCEPT
                                     !.ed.history_subset_loc = Some(Unwrap(loc) + 1),
                                     !.ed.cur_history_loc =
                                        Some(s.ed.history_subset_index[Unwrap(loc) + 2])]
                             ELSE [s EXCEPT
                                     !.ed.cur_history_loc = None,
                                     !.ed.history_subset_loc = None,
                                     !.ed.history_subset_index = <<>>]
                        ELSE s
                   ELSE IF IsSome(s.ed.cur_history_loc)
                           /\ Unwrap(s.ed.cur_history_loc) < history_len(s) - 1
                        THEN [s EXCEPT !.ed.cur_history_loc = Some(Unwrap(@) + 1)]
                        ELSE [s EXCEPT !.ed.cur_history_loc = None]
         IN  move_cursor_to_end_of_line(s1)

move_to_start_of_history(s) ==
    IF history_len(s) > 0
    THEN move_cursor_to_end_of_line([s EXCEPT !.ed.cur_history_loc = Some(0)])
    ELSE display([s EXCEPT !.ed.cur_history_loc = None, !.ed.no_newline = TRUE])

move_to_end_of_history(s) ==
    IF IsSome(s.ed.cur_history_loc)
    THEN move_cursor_to_end_of_line([s EXCEPT !.ed.cur_history_loc = None])
    ELSE display([s EXCEPT !.ed.no_newline = TRUE])

accept_autosuggestion(s) ==
    LET sug == s.ed.autosuggestion
        s1 == IF s.ed.show_autosuggestions
              THEN IF IsSome(sug)
                   THEN IF is_search(s)
                        THEN set_cur_buf(s, copy_buffer(cur_buf(s), Unwrap(sug)))
                        ELSE set_cur_buf(s, insert_from_buffer(cur_buf(s), Unwrap(sug)))
                   ELSE cur_buf_mut(s)
              ELSE s
    IN  move_cursor_to_end_of_line(clear_search(s1))

\* handle_newline, its last branch: the line is accepted.
accept_line(s) == Ok([s EXCEPT !.ed.show_completions_hint = None], TRUE)

\* handle_newline after the search has been accepted and cleared.
handle_newline_cleared(s) ==
    IF IsSome(s.ed.show_completions_hint)
    THEN Ok([s EXCEPT !.ed.show_completions_hint = None], FALSE)
    ELSE IF char_before(cur_buf(s), s.ed.cursor) = Some("\\")
    THEN Then1(insert_after_cursor(s, "\n"), Ok, FALSE)
    ELSE Then(Then(_display([s EXCEPT !.ed.cursor = num_chars(cur_buf(s)),
                                      !.ed.no_newline = TRUE], FALSE),
                   io_call),                 \* self.out.write_all(b"\r\n")?
              accept_line)

\* handle_newline after the search, if any, has been accepted.
handle_newline_accepted(s) == handle_newline_cleared(clear_search(s))

handle_newline(s) ==
    Then(IF is_search(s) THEN accept_autosuggestion(s) ELSE s,
         handle_newline_accepted)

\* -------------------------------------------------------------- completion

\* The order of characters (their code points).
CharCode(c) ==
    CASE c = "\t" -> 9 [] c = "\n" -> 10 [] c = " " -> 32 [] c = "$" -> 36
      [] c = "." -> 46 [] c \in Digits -> 48 + DigitValue(c)
      [] c = "A" -> 65 [] c = "C" -> 67 [] c = "D" -> 68 [] c = "I" -> 73
      [] c = "\\" -> 92 [] c = "a" -> 97 [] c = "c" -> 99 [] c = "d" -> 100
      [] c = "h" -> 104 [] c = "i" -> 105 [] c = "j" -> 106 [] c = "k" -> 107
      [] c = "l" -> 108 [] c = "r" -> 114 [] c = "s" -> 115 [] c = "u" -> 117
      [] c = "x" -> 120

\* The order of strings: a <= b.
RECURSIVE str_le(_, _)
str_le(a, b) ==
    IF a = <<>> THEN TRUE
    ELSE IF b = <<>> THEN FALSE
    ELSE IF a[1] = b[1] THEN str_le(Tail(a), Tail(b))
    ELSE CharCode(a[1]) < CharCode(b[1])

\* completions.sort(); completions.dedup();
RECURSIVE sorted_strings(_)
sorted_strings(S) ==
    IF S = {} THEN <<>>
    ELSE LET m == CHOOSE a \in S : \A b \in S : str_le(a, b)
         IN  <<m>> \o sorted_strings(S \ {m})

sort_dedup(list) == sorted_strings({list[i] : i \in 1..Len(list)})

\* util::find_longest_common_prefix, on a non-empty list.
find_longest_common_prefix(list) ==
    LET common(n) == \A i \in 1..Len(list) :
                        /\ Len(list[i]) >= n
                        /\ Slice(list[i], 0, n) = Slice(list[1], 0, n)
        n == CHOOSE k \in 0..Len(list[1]) :
                /\ common(k)
                /\ \A j \in 0..Len(list[1]) : common(j) => j <= k
    IN  Slice(list[1], 0, n)

\* The completer of the context: the candidates that start with the word.
completer_completions(prefixes, word) ==
    SelectSeq(prefixes, LAMBDA p : starts_with(p, word))

max_word_size(completions) ==
    LET lens == {Len(completions[i]) : i \in 1..Len(completions)} \cup {1}
    IN  CHOOSE m \in lens : \A l \in lens : l <= m

\* The number of columns print_completion_list lays the candidates out in.
completion_cols(completions, w) ==
    LET cols == Max(1, w \div max_word_size(completions))
        col_width == 2 + w \div cols
    IN  Max(1, w \div col_width)

\* next_completion that stops at the ends of the list instead of wrapping:
\* C12 tells the two apart.
next_completion_clamped(completions, i, completion_type, w) ==
    LET n == Len(completions)
        cols_items == Max(1, w \div max_word_size(completions))
    IN  IF ~IsSome(i) THEN 0
        ELSE LET j == Unwrap(i)
             IN  CASE completion_type = "Next" -> Min(j + 1, n - 1)
                   [] completion_type = "Prev" -> Max(j - 1, 0)
                   [] completion_type = "Up" ->
                        IF j + 1 < cols_items THEN j ELSE j + 1 - cols_items
                   [] completion_type = "Down" ->
                        IF j + cols_items - 1 > n - 1 THEN j ELSE j + cols_items - 1

\* The index complete highlights next.
next_completion(completions, i, completion_type, w) ==
    LET n == Len(completions)
        cols_items == Max(1, w \div max_word_size(completions))
    IN  IF ~IsSome(i) THEN 0
        ELSE LET j == Unwrap(i)
             IN  CASE completion_type = "Next" ->
                        IF j + 1 >= n THEN 0 ELSE Min(j + 1, n - 1)
                   [] completion_type = "Prev" ->
                        IF j = 0 THEN n - 1 ELSE Max(j - 1, 0)
                   [] completion_type = "Up" ->
                        IF j + 1 < cols_items THEN j ELSE j + 1 - cols_items
                   [] completion_type = "Down" ->
                        IF j + cols_items - 1 > n - 1 THEN j ELSE j + cols_items - 1

\* complete, its end: the hint is kept and the line is redrawn with it.
show_completions(s, hint) ==
    display([s EXCEPT !.ed.show_completions_hint = Some(hint),
                      !.ed.no_newline = TRUE])

complete(s, completion_type) ==
    IF IsSome(s.ed.show_completions_hint)
    THEN LET hint == Unwrap(s.ed.show_completions_hint)
             i == next_completion(hint.completions, hint.i, completion_type,
                                  s.io.width)
         IN  Then1(Then1(Then1(io_call([s EXCEPT !.ed.show_completions_hint =
                                                    None]),
                               delete_word_before_cursor, FALSE),
                         insert_str_after_cursor, hint.completions[i + 1]),
                   show_completions,
                   [completions |-> hint.completions, i |-> Some(i)])
    ELSE LET word_range == get_word_before_cursor(s, FALSE)
             s1 == cur_buf_mut(s)
             word == IF IsSome(word_range)
                     THEN Slice(cur_buf(s).data, Unwrap(word_range)[1],
                                Unwrap(word_range)[2])
                     ELSE <<>>
             completions ==
                sort_dedup(completer_completions(Unwrap(s.ctx.completer), word))
             none == [s1 EXCEPT !.ed.show_completions_hint = None]
             p == find_longest_common_prefix(completions)
         IN  IF ~IsSome(s.ctx.completer) THEN s1
             ELSE IF completions = <<>> THEN none
             ELSE IF Len(completions) = 1
             THEN Then1(delete_word_before_cursor(none, FALSE),
                        insert_str_after_cursor, completions[1])
             ELSE IF Len(p) > Len(word) /\ starts_with(p, word)
             THEN Then1(delete_word_before_cursor(s1, FALSE),
                        insert_str_after_cursor, p)
             ELSE show_completions(s1, [completions |-> completions,
                                        i |-> None])

skip_completions_hint(s) == [s EXCEPT !.ed.show_completions_hint = None]

\* ------------------------------------------------------------- Vi: modes

Insert == [m |-> "Insert", pos |-> 0]

Normal == [m |-> "Normal", pos |-> 0]

Replace == [m |-> "Replace", pos |-> 0]

Delete(start_pos) == [m |-> "Delete", pos |-> start_pos]

\* A u32 (the counts of the keymap) is a pair <<high, low>> of 16-bit halves,
\* so that the values up to 2^32 - 1 are all represented.
Half == 65536

u32(n) == <<n \div Half, n % Half>>

U32Max == <<Half - 1, Half - 1>>

\* u32::wrapping_add in the place of saturating_add: C13 tells the two apart.
wrapping_add(a, b) ==
    LET low == a[2] + b[2]
        high == a[1] + b[1] + (low \div Half)
    IN  <<high % Half, low % Half>>

\* u32::saturating_add.
saturating_add(a, b) ==
    LET low == a[2] + b[2]
        high == a[1] + b[1] + (low \div Half)
    IN  IF high >= Half THEN U32Max ELSE <<high, low % Half>>

\* The product of two 16-bit halves, exact, as a u32.
mul16(x, y) ==
    LET p == x * (y % 256)
        q == x * (y \div 256)
        low == (p % Half) + (q % 256) * 256
    IN  <<(p \div Half) + (q \div 256) + (low \div Half), low % Half>>

\* u32::wrapping_mul in the place of saturating_mul: C20 tells the two apart.
wrapping_mul(a, b) ==
    LET low == mul16(a[2], b[2])
        cross == mul16(a[1], b[2])[2] + mul16(a[2], b[1])[2]
    IN  <<(cross + low[1]) % Half, low[2]>>

\* u32::saturating_mul: a * b is (a1 * b2 + a2 * b1) * 2^16 + a2 * b2 unless
\* both high halves are set.
saturating_mul(a, b) ==
    IF a[1] > 0 /\ b[1] > 0 THEN U32Max
    ELSE LET cross == saturating_add(mul16(a[1], b[2]), mul16(a[2], b[1]))
         IN  IF cross[1] > 0 THEN U32Max
             ELSE saturating_add(<<cross[2], 0>>, mul16(a[2], b[2]))

\* `count as usize`, for the counts that fit a number of the model.
as_usize(c) == c[1] * Half + c[2]

\* cmp::min(n, count as usize), for a position or length n of a buffer.
min_usize(n, c) == IF c[1] > 0 THEN n ELSE Min(n, c[2])

\* ModeStack::mode: an empty stack is Normal mode.
mode(s) ==
    IF s.vi.mode_stack = <<>> THEN Normal
    ELSE s.vi.mode_stack[Len(s.vi.mode_stack)]

\* ModeStack::pop.
mode_stack_pop(s) ==
    [s EXCEPT !.vi.mode_stack =
                 IF @ = <<>> THEN <<>> ELSE Slice(@, 0, Len(@) - 1)]

is_movement_key(key) ==
    key \in {"h", "l", "Left", "Right", "Backspace", " ", "Home", "End", "$"}

\* self.ed.current_buffer_mut().start_undo_group()
current_buffer_start_undo_group(s) ==
    set_cur_buf(s, start_undo_group(cur_buf(s)))

\* self.ed.current_buffer_mut().end_undo_group()
current_buffer_end_undo_group(s) ==
    set_cur_buf(s, end_undo_group(cur_buf(s)))

set_mode_preserve_last(s, m) ==
    LET s1 == [s EXCEPT !.ed.no_eol = (m = Normal),
                        !.vi.movement_reset = (m # Insert),
                        !.vi.mode_stack = Append(@, m)]
    IN  IF m = Insert
        THEN current_buffer_start_undo_group(s1)
        ELSE s1

set_mode(s, m) ==
    LET s1 == set_mode_preserve_last(s, m)
    IN  IF m = Insert
        THEN [s1 EXCEPT !.vi.last_count = u32(0), !.vi.last_command = <<>>]
        ELSE s1

\* pop_mode_after_movement, after its deletion: the command typed becomes
\* the last command.
update_last_command(s) ==
    [s EXCEPT !.vi.last_command = s.vi.current_command,
              !.vi.current_command = s.vi.last_command,
              !.vi.last_insert = s.vi.current_insert,
              !.vi.last_count = s.vi.count,
              !.vi.count = u32(0),
              !.vi.secondary_count = u32(0)]

pop_mode_after_movement(s) ==
    LET original_mode == mode(s)
        s0 == mode_stack_pop(s)
        s1 == [s0 EXCEPT !.ed.no_eol = (mode(s0) = Normal),
                         !.vi.movement_reset = (mode(s0) # Insert)]
    IN  IF original_mode.m = "Delete"
        THEN Then(delete_until(s1, original_mode.pos), update_last_command)
        ELSE IF original_mode = Normal
        THEN [s1 EXCEPT !.vi.count = u32(0)]
        ELSE s1

\* pop_mode that leaves no_eol as it is: C37 tells the two apart.
pop_mode_keeping_no_eol(s) ==
    LET last_mode == mode(s)
        s1 == [mode_stack_pop(s) EXCEPT
                  !.vi.movement_reset = (mode(mode_stack_pop(s)) # Insert)]
    IN  IF last_mode = Insert
        THEN current_buffer_end_undo_group(s1)
        ELSE s1

pop_mode(s) ==
    LET last_mode == mode(s)
        s0 == mode_stack_pop(s)
        s1 == [s0 EXCEPT !.ed.no_eol = (mode(s0) = Normal),
                         !.vi.movement_reset = (mode(s0) # Insert)]
    IN  IF last_mode = Insert
        THEN current_buffer_end_undo_group(s1)
        ELSE s1

\* normal_mode_abort leaving by pop_mode: C23 tells the two apart.
normal_mode_abort_by_pop(s) == [pop_mode(s) EXCEPT !.vi.count = u32(0)]

\* normal_mode_abort clearing secondary_count as well: C22 tells the two apart.
normal_mode_abort_all_counts(s) ==
    [s EXCEPT !.vi.mode_stack = <<>>, !.ed.no_eol = TRUE, !.vi.count = u32(0),
              !.vi.secondary_count = u32(0)]

normal_mode_abort(s) ==
    [s EXCEPT !.vi.mode_stack = <<>>, !.ed.no_eol = TRUE, !.vi.count = u32(0)]

move_count(s) == IF s.vi.count = u32(0) THEN u32(1) ELSE s.vi.count

move_count_left(s) == min_usize(s.ed.cursor, move_count(s))

move_count_right(s) ==
    min_usize(num_chars(cur_buf(s)) - s.ed.cursor, move_count(s))

handle_key_common(s, key) ==
    CASE key = "Ctrl-l" -> clear(s)
      [] key = "Left" -> move_cursor_left(s, 1)
      [] key = "Right" -> move_cursor_right(s, 1)
      [] key = "Up" -> move_up(s)
      [] key = "Down" -> move_down(s)
      [] key = "Home" -> move_cursor_to_start_of_line(s)
      [] key = "End" -> move_cursor_to_end_of_line(s)
      [] key = "Backspace" -> delete_before_cursor(s)
      [] key = "Delete" -> delete_after_cursor(s)
      [] OTHER -> s

\* In Insert mode, a key typed after a movement starts a new undo group and
\* a new recorded command.
reset_after_movement(s) ==
    IF s.vi.movement_reset
    THEN [current_buffer_start_undo_group(current_buffer_end_undo_group(s))
            EXCEPT !.vi.last_command = <<>>,
                   !.vi.movement_reset = FALSE,
                   !.vi.last_insert = Some("i")]
    ELSE s

\* ----------------------------------------------------------- Vi: handlers

RECURSIVE handle_key_core(_, _)
RECURSIVE handle_keys(_, _)
RECURSIVE insert_repeats(_, _)
RECURSIVE undo_times(_, _)
RECURSIVE redo_times(_, _)
RECURSIVE replace_times(_, _, _)

\* The count is used up: self.count = 0.
reset_count(s) == [s EXCEPT !.vi.count = u32(0)]

\* for k in keys { try!(self.handle_key_core(k)); }
handle_keys(s, keys) ==
    IF keys = <<>> THEN s
    ELSE Then1(handle_key_core(s, keys[1]), handle_keys, Tail(keys))

\* The loop of Esc in Insert mode: n more replays of the recorded command.
insert_repeats(s, n) ==
    IF n <= 0 THEN s
    ELSE Then1(handle_keys([s EXCEPT !.vi.last_command = <<>>],
                           s.vi.last_command),
               insert_repeats, n - 1)

\* if !did { break }: n more rounds of the loop of u after an undo that did
\* something.
undo_more(s, n) == IF s.ret THEN undo_times(s, n) ELSE s

\* for _ in 0..count { if !try!(self.ed.undo()) { break } }
undo_times(s, n) ==
    IF n <= 0 THEN s ELSE Then1(undo(s), undo_more, n - 1)

redo_more(s, n) == IF s.ret THEN redo_times(s, n) ELSE s

redo_times(s, n) ==
    IF n <= 0 THEN s ELSE Then1(redo(s), redo_more, n - 1)

\* The loop of handle_key_replace: n characters replaced by c.
replace_times(s, c, n) ==
    IF n <= 0 THEN s
    ELSE Then2(Then1(delete_after_cursor(s), insert_after_cursor, c),
               replace_times, c, n - 1)

\* repeat, its first step: the key that entered Insert mode is typed again.
repeat_last_insert(s) ==
    IF IsSome(s.vi.last_insert)
    THEN handle_key_core(s, Unwrap(s.vi.last_insert))
    ELSE s

\* repeat, its last step: Esc leaves the Insert mode the command entered.
repeat_leave_insert(s) ==
    IF IsSome(s.vi.last_insert) THEN handle_key_core(s, "Esc") ELSE s

\* repeat, its end: self.last_command = keys.
restore_last_command(s, keys) == [s EXCEPT !.vi.last_command = keys]

\* repeat that replays the recorded command without the count typed before
\* the dot: C10 tells the two apart.
repeat_without_count(s) ==
    Then1(Then(Then1(repeat_last_insert([s EXCEPT !.vi.count = u32(0),
                                                  !.vi.last_count = u32(0),
                                                  !.vi.last_command = <<>>]),
                     handle_keys, s.vi.last_command),
               repeat_leave_insert),
          restore_last_command, s.vi.last_command)

repeat(s) ==
    Then1(Then(Then1(repeat_last_insert([s EXCEPT !.vi.last_count = s.vi.count,
                                                  !.vi.last_command = <<>>]),
                     handle_keys, s.vi.last_command),
               repeat_leave_insert),
          restore_last_command, s.vi.last_command)

\* Esc in Insert mode, after the repeats: the cursor moves to the left and
\* the mode is popped.
leave_insert(s) == Then(move_cursor_left(s, 1), pop_mode)

\* A movement in Insert mode without the reset of the count: C26 tells the
\* two apart.
movement_in_insert_keeping_count(s) == [s EXCEPT !.vi.movement_reset = TRUE]

\* A movement in Insert mode: self.count = 0; self.movement_reset = true.
movement_in_insert(s) ==
    [s EXCEPT !.vi.count = u32(0), !.vi.movement_reset = TRUE]

handle_key_insert(s, key) ==
    CASE key = "Esc" ->
            Then(IF s.vi.count # u32(0)
                 THEN Then(insert_repeats([s EXCEPT !.vi.last_count = s.vi.count],
                                          as_usize(s.vi.count) - 1),
                           reset_count)
                 ELSE s,
                 leave_insert)
      [] IsChar(key) ->
            LET s1 == reset_after_movement(s)
            IN  insert_after_cursor([s1 EXCEPT !.vi.last_command = Append(@, key)],
                                    key)
      [] key \in {"Backspace", "Delete"} ->
            LET s1 == reset_after_movement(s)
            IN  handle_key_common([s1 EXCEPT !.vi.last_command = Append(@, key)],
                                  key)
      [] key \in {"Left", "Right", "Home", "End"} ->
            handle_key_common(movement_in_insert(s), key)
      [] key = "Up" ->
            Then(move_up(current_buffer_end_undo_group(movement_in_insert(s))),
                 current_buffer_start_undo_group)
      [] key = "Down" ->
            Then(move_down(current_buffer_end_undo_group(movement_in_insert(s))),
                 current_buffer_start_undo_group)
      [] OTHER -> handle_key_common(s, key)

\* Key::Char('D') and Key::Char('C'): the recorded command becomes the key.
record_command(s, key) ==
    [s EXCEPT !.vi.last_insert = None,
              !.vi.last_command = <<key>>,
              !.vi.count = u32(0),
              !.vi.last_count = u32(0)]

\* let pos = self.ed.cursor() + self.move_count_right();
\* try!(self.ed.delete_until(pos));
delete_count_right(s) == delete_until(s, s.ed.cursor + move_count_right(s))

\* self.last_count = self.count; self.count = 0;
count_becomes_last_count(s) ==
    [s EXCEPT !.vi.last_count = s.vi.count, !.vi.count = u32(0)]

\* The count of `.` taken as the largest of count, last_count and 1: C19
\* tells the two apart.
repeat_count_max(s) ==
    IF as_usize(s.vi.count) >= as_usize(s.vi.last_count)
    THEN (IF s.vi.count = u32(0) THEN u32(1) ELSE s.vi.count)
    ELSE s.vi.last_count

\* The count `.` replays with: the count typed, else the last count, else 1.
repeat_count(s) ==
    IF s.vi.count = u32(0)
    THEN IF s.vi.last_count = u32(0) THEN u32(1) ELSE s.vi.last_count
    ELSE s.vi.count

handle_key_normal(s, key) ==
    CASE key = "Esc" -> [s EXCEPT !.vi.count = u32(0)]
      [] key = "i" ->
            set_mode([s EXCEPT !.vi.last_insert = Some(key)], Insert)
      [] key = "a" ->
            move_cursor_right(
                set_mode([s EXCEPT !.vi.last_insert = Some(key)], Insert), 1)
      [] key = "A" ->
            move_cursor_to_end_of_line(
                set_mode([s EXCEPT !.vi.last_insert = Some(key)], Insert))
      [] key = "I" ->
            move_cursor_to_start_of_line(
                set_mode([s EXCEPT !.vi.last_insert = Some(key)], Insert))
      [] key = "s" ->
            Then(delete_count_right(
                    set_mode([s EXCEPT !.vi.last_insert = Some(key)], Insert)),
                 count_becomes_last_count)
      [] key = "r" -> set_mode(s, Replace)
      [] key \in {"d", "c"} ->
            LET s1 == IF key = "d"
                      THEN [s EXCEPT !.vi.current_insert = None,
                                     !.vi.current_command = <<key>>]
                      ELSE set_mode([s EXCEPT !.vi.current_insert = Some(key),
                                              !.vi.current_command = <<>>],
                                    Insert)
                s2 == set_mode(s1, Delete(s1.ed.cursor))
            IN  [s2 EXCEPT !.vi.secondary_count = s2.vi.count,
                           !.vi.count = u32(0)]
      [] key = "D" -> delete_all_after_cursor(record_command(s, key))
      [] key = "C" ->
            delete_all_after_cursor(
                set_mode_preserve_last(record_command(s, key), Insert))
      [] key = "." -> repeat([s EXCEPT !.vi.count = repeat_count(s)])
      [] key \in {"h", "Left", "Backspace"} ->
            Then(move_cursor_left(s, move_count_left(s)), pop_mode_after_movement)
      [] key \in {"l", "Right", " "} ->
            Then(move_cursor_right(s, move_count_right(s)), pop_mode_after_movement)
      [] key \in {"k", "Up"} ->
            Then(move_up(s), pop_mode_after_movement)
      [] key \in {"j", "Down"} ->
            Then(move_down(s), pop_mode_after_movement)
      [] key = "0" /\ s.vi.count = u32(0) ->
            Then(move_cursor_to_start_of_line(s), pop_mode_after_movement)
      [] key \in Digits /\ ~(key = "0" /\ s.vi.count = u32(0)) ->
            [s EXCEPT !.vi.count =
                        saturating_add(saturating_mul(@, u32(10)),
                                       u32(DigitValue(key)))]
      [] key = "$" ->
            Then(move_cursor_to_end_of_line(s), pop_mode_after_movement)
      [] key \in {"x", "Delete"} ->
            Then(delete_count_right([s EXCEPT !.vi.last_insert = None,
                                              !.vi.last_command = <<key>>,
                                              !.vi.last_count = s.vi.count]),
                 reset_count)
      [] key = "u" ->
            undo_times([s EXCEPT !.vi.count = u32(0)], as_usize(move_count(s)))
      [] key = "Ctrl-r" ->
            redo_times([s EXCEPT !.vi.count = u32(0)], as_usize(move_count(s)))
      [] OTHER -> handle_key_common(s, key)

\* handle_key_replace: the undo group of the replacement is opened and
\* move_count_right() characters are replaced by c.
replace_count(s, c) ==
    replace_times(current_buffer_start_undo_group(s), c, move_count_right(s))

\* handle_key_replace after its loop: the undo group is closed and the cursor
\* moves back onto the last character replaced.
replaced(s) == move_cursor_left(current_buffer_end_undo_group(s), 1)

handle_key_replace(s, key) ==
    IF IsChar(key)
    THEN IF u32(move_count_right(s)) = move_count(s)
         THEN Then(Then(Then(replace_count(
                                [s EXCEPT !.vi.last_insert = None,
                                          !.vi.last_command = <<"r", key>>,
                                          !.vi.last_count = s.vi.count],
                                key),
                             replaced),
                        pop_mode),
                   reset_count)
         ELSE reset_count(pop_mode(s))
    ELSE reset_count(normal_mode_abort(s))

handle_key_delete_or_change(s, key) ==
    CASE is_movement_key(key) \/ (key = "0" /\ s.vi.count = u32(0)) ->
            handle_key_normal(
                [s EXCEPT !.vi.count =
                            IF s.vi.count = u32(0) THEN s.vi.secondary_count
                            ELSE IF s.vi.secondary_count = u32(0) THEN s.vi.count
                            ELSE saturating_mul(s.vi.secondary_count, s.vi.count),
                          !.vi.current_command = Append(@, key)],
                key)
      [] key \in Digits /\ ~(key = "0" /\ s.vi.count = u32(0)) ->
            handle_key_normal(s, key)
      [] \/ (key = "c" /\ s.vi.current_insert = Some("c"))
         \/ (key = "d" /\ s.vi.current_insert = None) ->
            Then(Then(move_cursor_to_start_of_line(
                         [s EXCEPT !.vi.current_command = Append(@, key),
                                   !.vi.count = u32(0),
                                   !.vi.secondary_count = u32(0)]),
                      delete_all_after_cursor),
                 pop_mode)
      [] OTHER -> normal_mode_abort(s)

handle_key_core(s, key) ==
    CASE mode(s).m = "Normal" -> handle_key_normal(s, key)
      [] mode(s).m = "Insert" -> handle_key_insert(s, key)
      [] mode(s).m = "Replace" -> handle_key_replace(s, key)
      [] mode(s).m = "Delete" -> handle_key_delete_or_change(s, key)

\* ------------------------------------------------------------ KeyMap

\* KeyMap::handle_key: the keys the read loop handles before the keymap, then
\* the keymap's own handler, then a flush.
handle_key_unflushed(s, k) ==
    CASE k = "\t" -> complete(s, "Next")
      [] k = "\n" -> handle_newline(s)
      [] k = "Ctrl-f" /\ is_currently_showing_autosuggestion(s) ->
            accept_autosuggestion(s)
      [] /\ k = "Right"
         /\ is_currently_showing_autosuggestion(s)
         /\ cursor_is_at_end_of_line(s) ->
            accept_autosuggestion(s)
      [] OTHER -> Then(handle_key_core(s, k), skip_completions_hint)

\* The end of KeyMap::handle_key: the flush, and done is what handle_newline
\* returned.
handle_key_flush(s, k) ==
    Then1(io_call(s),                        \* self.editor_mut().flush()?
          Ok, IF k = "\n" THEN s.ret ELSE FALSE)

handle_key(s, key) ==
    Then1(handle_key_unflushed(Ok(s, FALSE),
                               IF key = "Ctrl-h" THEN "Backspace" ELSE key),
          handle_key_flush, IF key = "Ctrl-h" THEN "Backspace" ELSE key)

\* ------------------------------------------------------------ the session

VARIABLES
    ed,       \* the fields of the Editor
    vi,       \* the fields of the Vi keymap
    ctx,      \* the Context: the history and the completer
    io,       \* the terminal: what is on the screen, what is staged for it
    done,     \* what the last handle_key or handle_newline returned
    status,   \* "reading" keys, "done" (the line was accepted) or "error"
    last,     \* the last key or operation handled
    nkeys     \* the number of keys and operations handled

vars == <<ed, vi, ctx, io, done, status, last, nkeys>>

\* The program state the handlers work on.
St == [ed |-> ed, vi |-> vi, ctx |-> ctx, io |-> io, ret |-> FALSE]

\* The buffers a session starts with, the histories and the completers.
InitBuffers == {<<>>, <<"a", "x">>}

Histories == {<<>>, <<BufferOf(<<"a">>), BufferOf(<<"a", "x">>)>>}

Completers == {None, Some(<<<<"a", "x">>, <<"a", "a">>>>)}

\* The terminal widths of a session.
TermWidth == 4

\* Editor::new_with_init_buffer.
new_editor(buffer, context) ==
    LET s == [ed |-> [cursor |-> 0,
                      new_buf |-> BufferOf(buffer),
                      cur_history_loc |-> None,
                      show_completions_hint |-> None,
                      show_autosuggestions |-> TRUE,
                      no_eol |-> FALSE,
                      no_newline |-> FALSE,
                      reverse_search |-> FALSE,
                      forward_search |-> FALSE,
                      buffer_changed |-> FALSE,
                      history_subset_index |-> <<>>,
                      history_subset_loc |-> None,
                      autosuggestion |-> None],
              vi |-> [mode_stack |-> <<>>],
              ctx |-> context,
              io |-> [calls |-> 0, fail_at |-> 0, err |-> FALSE,
                      panicked |-> FALSE, overrun |-> FALSE,
                      staged |-> FALSE, width |-> TermWidth,
                      shown |-> [data |-> <<>>, cursor |-> 0, hint |-> None,
                                 reverse_search |-> FALSE,
                                 forward_search |-> FALSE, no_eol |-> FALSE]],
              ret |-> FALSE]
        s1 == IF buffer # <<>> THEN move_cursor_to_end_of_line(s) ELSE s
    IN  display(s1)

\* Vi::new.
new_vi(s) ==
    [current_buffer_start_undo_group(s) EXCEPT
        !.vi = [mode_stack |-> <<Insert>>,
                current_command |-> <<>>,
                last_command |-> <<>>,
                current_insert |-> None,
                last_insert |-> Some("i"),
                count |-> u32(0),
                secondary_count |-> u32(0),
                last_count |-> u32(0),
                movement_reset |-> FALSE]]

\* A history with an entry of two lines, accepted with a line continuation.
HistoriesWithLines == {<<BufferOf(<<"a", "\n", "x">>), BufferOf(<<"a">>)>>}

InitWith(histories) ==
    \E buffer \in InitBuffers, h \in histories, c \in Completers :
        LET s == new_vi(new_editor(buffer, [history |-> h, completer |-> c]))
        IN  /\ ed = s.ed
            /\ vi = s.vi
            /\ ctx = s.ctx
            /\ io = [s.io EXCEPT !.calls = 0]
            /\ done = FALSE
            /\ status = "reading"
            /\ last = "new"
            /\ nkeys = 0

Init == InitWith(Histories)

\* A session over a history that has an entry of two lines.
InitLines == InitWith(HistoriesWithLines)

\* The bounds of the model hold of a state.
WithinBounds(s) ==
    /\ Len(s.ed.new_buf.data) <= MaxLen
    /\ \A i \in 1..Len(s.ctx.history) : Len(s.ctx.history[i].data) <= MaxLen
    /\ s.vi.count[1] = 0 /\ s.vi.count[2] <= MaxCount
    /\ s.vi.secondary_count[1] = 0 /\ s.vi.secondary_count[2] <= MaxCount

\* The state a handler leaves behind becomes the state of the session.
Becomes(s, name) ==
    /\ WithinBounds(s)
    /\ ed' = s.ed
    /\ vi' = s.vi
    /\ ctx' = s.ctx
    /\ io' = [s.io EXCEPT !.calls = 0, !.fail_at = 0]
    /\ done' = s.ret
    /\ status' = IF s.io.err THEN "error" ELSE IF s.ret THEN "done" ELSE "reading"
    /\ last' = name
    /\ nkeys' = nkeys + 1

\* The state with the environment's choice of the terminal call that fails.
Failing(fail_at) == [St EXCEPT !.io.fail_at = fail_at]

Ready == status = "reading" /\ nkeys < MaxKeys

\* The keys typed in each mode: text in Insert and Replace mode, commands in
\* Normal and operator-pending mode, and the keys that are not characters.
KeysOf(m) ==
    (IF m \in {"Insert", "Replace"} THEN TextChars
     ELSE CommandChars \cup TextChars)
    \cup SpecialKeys \cup {"\n", "\t"}

\* One key read by the read loop and handled by the keymap.
Key(fail_at) ==
    /\ Ready
    /\ \E key \in KeysOf(mode(St).m) : Becomes(handle_key(Failing(fail_at), key), key)

\* The public operations of the Editor that no key of the Vi keymap reaches:
\* a caller (or the event hook) invokes them on the keymap's editor, between
\* two commands of the keymap (never while an operator or a replace waits for
\* its next key).
Idle == Ready /\ mode(St).m \in {"Insert", "Normal"}

Search(fail_at) ==
    /\ Idle
    /\ \E forward \in BOOLEAN :
          Becomes(search(Failing(fail_at), forward),
                  IF forward THEN "search(true)" ELSE "search(false)")

Complete(fail_at) ==
    /\ Idle
    /\ \E completion_type \in {"Prev", "Up", "Down"} :
          Becomes(complete(Failing(fail_at), completion_type), "complete")

Revert(fail_at) ==
    /\ Idle
    /\ Becomes([revert(Failing(fail_at)) EXCEPT !.ret = FALSE], "revert")

MoveToStartOfHistory(fail_at) ==
    /\ Idle
    /\ Becomes(move_to_start_of_history(Failing(fail_at)),
               "move_to_start_of_history")

MoveToEndOfHistory(fail_at) ==
    /\ Idle
    /\ Becomes(move_to_end_of_history(Failing(fail_at)), "move_to_end_of_history")

MoveCursorTo(fail_at) ==
    /\ Idle
    /\ \E pos \in 0..(MaxLen + 1) :
          Becomes(move_cursor_to(Failing(fail_at), pos), "move_cursor_to")

DeleteWordBeforeCursor(fail_at) ==
    /\ Idle
    /\ \E ignore_space_before_cursor \in BOOLEAN :
          Becomes(delete_word_before_cursor(Failing(fail_at),
                                            ignore_space_before_cursor),
                  "delete_word_before_cursor")

DeleteAllBeforeCursor(fail_at) ==
    /\ Idle
    /\ Becomes(delete_all_before_cursor(Failing(fail_at)),
               "delete_all_before_cursor")

DeleteUntil(fail_at) ==
    /\ Idle
    /\ \E position \in 0..num_chars(cur_buf(St)) :
          Becomes(delete_until(Failing(fail_at), position), "delete_until")

DeleteUntilInclusive(fail_at) ==
    /\ Idle
    /\ ed.cursor < num_chars(cur_buf(St))
    /\ \E position \in 0..(num_chars(cur_buf(St)) - 1) :
          Becomes(delete_until_inclusive(Failing(fail_at), position),
                  "delete_until_inclusive")

Operation(fail_at) ==
    \/ Search(fail_at)
    \/ Complete(fail_at)
    \/ Revert(fail_at)
    \/ MoveToStartOfHistory(fail_at)
    \/ MoveToEndOfHistory(fail_at)
    \/ MoveCursorTo(fail_at)
    \/ DeleteWordBeforeCursor(fail_at)
    \/ DeleteAllBeforeCursor(fail_at)
    \/ DeleteUntil(fail_at)
    \/ DeleteUntilInclusive(fail_at)

\* A session in which the terminal never fails.
Next == Key(0) \/ Operation(0)

Spec == Init /\ [][Next]_vars

SpecLines == InitLines /\ [][Next]_vars

\* The number of fallible terminal calls of one handler among which the
\* environment picks the failing one.
MaxFail == 4

\* A session in which any one terminal call (the width query, the size query
\* of the completion grid, the write, the flush) may fail: the handler returns
\* the error and the read loop ends.
NextIO ==
    \E fail_at \in 0..MaxFail : Key(fail_at) \/ Operation(fail_at)

SpecIO == Init /\ [][NextIO]_vars

\* ------------------------------------------------------------- properties

\* Invariant (a) of the editor state: the cursor is inside the current buffer,
\* and on a character of it when no_eol is set and there is one.
CursorInvariant(s) ==
    LET n == num_chars(cur_buf(s))
    IN  /\ 0 <= s.ed.cursor /\ s.ed.cursor <= n
        /\ (s.ed.no_eol /\ n > 0) => s.ed.cursor <= n - 1

\* Invariant (b): at most one of the two search flags is set.
SearchFlagsInvariant(s) == ~(s.ed.reverse_search /\ s.ed.forward_search)

\* Invariant (c): history_subset_loc is absent or an index of
\* history_subset_index.
SubsetLocInvariant(s) ==
    IsSome(s.ed.history_subset_loc) =>
        Unwrap(s.ed.history_subset_loc) < Len(s.ed.history_subset_index)

\* C1, as stated: after every key handled by the Vi keymap and after every
\* public Editor operation the cursor is within the current buffer, and at most
\* at its last character when no_eol is set and the buffer is non-empty.
\* Esc in Insert mode with a completions hint up breaks it: move_cursor_left is
\* swallowed by the hint, pop_mode then sets no_eol with the cursor still at the
\* end of the line.
C1_CursorInvariantBetweenKeys == status # "error" => CursorInvariant(St)

\* Exactly the search flag of the direction is set.
SearchFlagsAre(s, forward) ==
    s.ed.forward_search = forward /\ s.ed.reverse_search = ~forward

\* C2: in every reachable state reverse_search and forward_search are not both
\* true; from there, starting a search sets exactly the flag of the requested
\* direction, refreshing the search sets exactly one flag, and clear_search,
\* clear, accept_autosuggestion and handle_newline leave both flags false.
C2_SearchFlagsExclusive ==
    /\ SearchFlagsInvariant(St)
    /\ \A forward \in BOOLEAN :
          /\ ~is_search(St) => SearchFlagsAre(search(St, forward), forward)
          /\ SearchFlagsAre(refresh_search(St, forward), forward)
    /\ \A t \in {clear_search(St), clear(St), accept_autosuggestion(St),
                 handle_newline(St)} :
          ~t.ed.reverse_search /\ ~t.ed.forward_search

\* C2, its case: a reverse search is under way, continued by a search in the
\* forward direction, and the newline that follows ends it.
C2_SearchContinuedThenLeft ==
    /\ last = "search(true)"
    /\ ed.reverse_search
    /\ IsSome(ed.history_subset_loc)
    /\ ~is_search(handle_newline(St))

\* C3: history_subset_loc is absent or strictly less than the length of
\* history_subset_index, hence absent when history_subset_index is empty.
C3_SubsetLocValid ==
    /\ SubsetLocInvariant(St)
    /\ ed.history_subset_index = <<>> => ed.history_subset_loc = None

\* C3, its case: a search or a history walk has selected an entry of a
\* non-empty subset, at its last index.
C3_SubsetLocAtLastIndex ==
    /\ Len(ed.history_subset_index) >= 1
    /\ ed.history_subset_loc = Some(Len(ed.history_subset_index) - 1)
    /\ nkeys >= 2

\* The part of the screen that shows the buffer, the cursor and the search.
Core(scr) ==
    [data |-> scr.data, cursor |-> scr.cursor,
     reverse_search |-> scr.reverse_search, forward_search |-> scr.forward_search]

\* The cursor at the end of the line: after the last character, or on it when
\* no_eol is set and there is one.
EndOfLine(s) ==
    LET n == num_chars(cur_buf(s))
    IN  IF s.ed.no_eol /\ n > 0 THEN n - 1 ELSE n

\* C4, as stated: when the next key is read, the last redraw shows the buffer,
\* the cursor, the completions hint, the search state and no_eol as they are:
\* no change of them is left undisplayed.
C4_EveryChangeDisplayed == status = "reading" => io.shown = Screen(St)

\* C4, amended: when the next key is read (or the line has been accepted), the
\* last redraw shows the buffer, the cursor and the search flags as they are.
\* A change of no_eol by a mode switch and the dismissal of the completions
\* hint come after the last redraw.
C4_BufferCursorSearchDisplayed ==
    status # "error" => Core(io.shown) = Core(Screen(St))

\* C4, its case: x in Normal mode has removed a character and left the cursor
\* past the last one, and the redraw that follows has put it back and shows
\* the shorter buffer.
C4_DeletionDisplayed ==
    /\ status = "reading" /\ last = "x" /\ ed.no_eol
    /\ cur_buf(St).actions # <<>>
    /\ cur_buf(St).actions[Len(cur_buf(St).actions)].t = "Remove"
    /\ ed.cursor = num_chars(cur_buf(St)) - 1
    /\ io.shown.data = cur_buf(St).data

\* C5, as stated: after an operation has returned an I/O failure the
\* invariants of the editor state hold. The width query of the redraw fails
\* before the redraw puts the cursor back inside the line.
C5_InvariantsAfterFailure ==
    status = "error" =>
        /\ CursorInvariant(St)
        /\ SearchFlagsInvariant(St)
        /\ SubsetLocInvariant(St)

\* The state handle_newline decides on: the search accepted and cleared.
AfterSearchAccepted(s) ==
    clear_search(IF is_search(s) THEN accept_autosuggestion(s) ELSE s)

\* C6: handle_newline returns done exactly when, the search accepted and
\* cleared, there is no completions hint and no backslash before the cursor;
\* with a hint it returns not-done, drops the hint and leaves the buffer as it
\* is; with a backslash before the cursor it returns not-done and inserts a
\* newline character at the cursor.
C6_NewlineDoneExactlyWhen ==
    status = "reading" =>
        LET s2 == AfterSearchAccepted(St)
            r == handle_newline(St)
            data == cur_buf(s2).data
            c == s2.ed.cursor
            hint == s2.ed.show_completions_hint # None
            backslash == c > 0 /\ c <= Len(data) /\ data[c] = "\\"
        IN  /\ r.ret <=> (~hint /\ ~backslash)
            /\ hint => /\ r.ed.show_completions_hint = None
                       /\ cur_buf(r).data = data
                       /\ r.ed.cursor = c
            /\ (~hint /\ backslash) =>
                  /\ cur_buf(r).data =
                        SubSeq(data, 1, c) \o <<"\n">> \o SubSeq(data, c + 1, Len(data))
                  /\ r.ed.cursor = c + 1

\* C6, its case: the newline key has found a backslash before the cursor, has
\* inserted a newline character after it and the line is not accepted.
C6_ContinuationLine ==
    /\ last = "\n" /\ status = "reading" /\ ~done
    /\ ed.cursor >= 2
    /\ cur_buf(St).data[ed.cursor] = "\n"
    /\ cur_buf(St).data[ed.cursor - 1] = "\\"

RECURSIVE simulate_keys(_, _)
simulate_keys(s, keys) ==
    IF keys = <<>> THEN s
    ELSE LET s1 == handle_key(s, keys[1])
         IN  IF s1.io.err \/ s1.ret THEN s1 ELSE simulate_keys(s1, Tail(keys))

\* The history entry a search has selected.
SelectedEntry(s) ==
    history_at(s, s.ed.history_subset_index[Unwrap(s.ed.history_subset_loc) + 1])

SearchHasMatch(s) == is_search(s) /\ IsSome(s.ed.history_subset_loc)

SearchLeft(r) ==
    /\ ~r.ed.reverse_search /\ ~r.ed.forward_search
    /\ r.ed.history_subset_loc = None

\* What is appended to data to make it the suggestion.
Appended(data, suggestion) ==
    data \o SubSeq(suggestion, Len(data) + 1, Len(suggestion))

\* C8, as stated: in a search with a selected match, accept_autosuggestion and
\* handle_newline make the current buffer an exact copy of the selected
\* history entry, clear both search flags and history_subset_loc and leave the
\* cursor at num_chars; outside a search accept_autosuggestion appends the
\* suggestion to the current buffer.
C8_AcceptCopiesCursorAtNumChars ==
    status = "reading" =>
        /\ SearchHasMatch(St) =>
              \A r \in {accept_autosuggestion(St), handle_newline(St)} :
                  /\ cur_buf(r).data = SelectedEntry(St).data
                  /\ SearchLeft(r)
                  /\ r.ed.cursor = num_chars(cur_buf(r))
        /\ (~is_search(St) /\ IsSome(ed.autosuggestion)) =>
              cur_buf(accept_autosuggestion(St)).data =
                  Appended(cur_buf(St).data, Unwrap(ed.autosuggestion).data)

\* C8, amended: in a search with a selected match, accept_autosuggestion makes
\* the current buffer an exact copy of the selected history entry, clears both
\* search flags and history_subset_loc and leaves the cursor at the end of the
\* line (on the last character when no_eol is set); handle_newline does the
\* same and then, when there is no completions hint and a backslash is before
\* the cursor, inserts a newline character at the cursor; outside a search
\* accept_autosuggestion appends the rest of the suggestion to the current
\* buffer.
C8_AcceptCopiesSelectedEntry ==
    status = "reading" =>
        /\ SearchHasMatch(St) =>
              LET a == accept_autosuggestion(St)
                  r == handle_newline(St)
                  entry == SelectedEntry(St).data
                  c == a.ed.cursor
                  continued == /\ a.ed.show_completions_hint = None
                               /\ c > 0 /\ entry[c] = "\\"
              IN  /\ cur_buf(a).data = entry
                  /\ SearchLeft(a)
                  /\ c = EndOfLine(a)
                  /\ SearchLeft(r)
                  /\ ~continued => /\ cur_buf(r).data = entry
                                   /\ r.ed.cursor = EndOfLine(r)
                  /\ continued => /\ cur_buf(r).data =
                                        SubSeq(entry, 1, c) \o <<"\n">>
                                            \o SubSeq(entry, c + 1, Len(entry))
                                  /\ r.ed.cursor = c + 1
        /\ (~is_search(St) /\ IsSome(ed.autosuggestion)) =>
              LET a == accept_autosuggestion(St)
              IN  /\ cur_buf(a).data =
                        Appended(cur_buf(St).data, Unwrap(ed.autosuggestion).data)
                  /\ a.ed.cursor = EndOfLine(a)

\* C8, its case: a search in Normal mode has selected an entry that is not the
\* text of the current buffer, the second of two matches, and accepting it
\* replaces the buffer by the entry.
C8_SearchSelectsOtherEntry ==
    /\ status = "reading" /\ SearchHasMatch(St) /\ ed.no_eol
    /\ Len(ed.history_subset_index) >= 2
    /\ ed.history_subset_loc = Some(1)
    /\ SelectedEntry(St).data # cur_buf(St).data
    /\ cur_buf(accept_autosuggestion(St)).data = SelectedEntry(St).data

\* What the user sees of the line: the characters and the cursor.
Obs(s) == <<cur_buf(s).data, s.ed.cursor>>

\* Normal mode with no count typed, no completions hint up and no search
\* under way.
AtNormalCommand ==
    /\ status = "reading"
    /\ mode(St).m = "Normal"
    /\ ~is_search(St)
    /\ vi.count = u32(0) /\ vi.secondary_count = u32(0)
    /\ ed.show_completions_hint = None

\* The edits a buffer has logged.
NumEdits(b) ==
    Cardinality({i \in 1..Len(b.actions) : b.actions[i].t \in {"Insert", "Remove"}})

\* One logical edit group typed in Normal mode: an Insert session from the
\* key that enters Insert mode to Esc, or one x, s or r command, with a count
\* or without.
EditGroups ==
    {<<"i", "a", "Esc">>, <<"i", "a", "x", "Esc">>, <<"a", "x", "Esc">>,
     <<"A", "x", "Esc">>, <<"I", "x", "Esc">>, <<"2", "i", "a", "Esc">>,
     <<"x">>, <<"2", "x">>, <<"s", "x", "Esc">>, <<"2", "s", "x", "Esc">>,
     <<"r", "x">>, <<"2", "r", "x">>}

RecordedCommands ==
    {<<"i", "a", "x", "Esc">>, <<"a", "x", "Esc">>, <<"x">>, <<"r", "x">>,
     <<"d", "l">>, <<"d", "h">>, <<"c", "l", "x", "Esc">>}

\* The counts typed before the dot.
RepeatCounts == {"1", "2", "3"}

\* The key sequence performed n times in succession.
RECURSIVE Times(_, _)
Times(keys, n) == IF n = 0 THEN <<>> ELSE keys \o Times(keys, n - 1)

\* C10, as stated: with a recorded last command, n and the dot in Normal mode
\* yield the buffer and the cursor that performing the captured key sequence
\* n times in succession yields from the same state.
C10_DotWithCountIsSequenceNTimes ==
    AtNormalCommand =>
        \A cmd \in RecordedCommands, n \in RepeatCounts :
            LET t == simulate_keys(St, cmd)
            IN  Obs(simulate_keys(t, <<n, ".">>)) =
                    Obs(simulate_keys(t, Times(cmd, DigitValue(n))))

\* The keys of the recorded last command: the key that entered Insert mode,
\* the captured keys, the Esc that left Insert mode.
LastCommandKeys(s) ==
    IF IsSome(s.vi.last_insert)
    THEN <<Unwrap(s.vi.last_insert)>> \o s.vi.last_command \o <<"Esc">>
    ELSE s.vi.last_command

\* C10, amended: with a recorded last command, n and the dot in Normal mode
\* yield the buffer and the cursor that the recorded command typed once with
\* the count n yields from the same state: one Insert session that inserts
\* the text n times, one x, r<char>, d or c over n characters.
C10_DotWithCountIsCommandWithCount ==
    AtNormalCommand =>
        \A cmd \in RecordedCommands, n \in RepeatCounts :
            LET t == simulate_keys(St, cmd)
            IN  LastCommandKeys(t) = cmd =>
                    Obs(simulate_keys(t, <<n, ".">>)) =
                        Obs(simulate_keys(t, <<n>> \o cmd))

\* C10, its case: text was inserted in Normal mode's Insert session, and 2
\* and the dot insert it twice where typing the session twice would not.
C10_DotRepeatsInsertTwice ==
    /\ AtNormalCommand
    /\ vi.last_insert = Some("i") /\ vi.last_command = <<"a">>
    /\ cur_buf(St).data = <<"a", "a", "x">>
    /\ cur_buf(simulate_keys(St, <<"2", ".">>)).data = <<"a", "a", "a", "a", "x">>
    /\ Obs(simulate_keys(St, <<"2", ".">>)) # Obs(simulate_keys(St, <<".", ".">>))

SearchOverHistoryEntry(s) == is_search(s) /\ IsSome(s.ed.cur_history_loc)

HintOf(s) == Unwrap(s.ed.show_completions_hint)

Highlighted(s) ==
    IsSome(s.ed.show_completions_hint) /\ IsSome(HintOf(s).i)

\* From a state whose hint highlights a candidate: complete(Next) moves the
\* highlight one candidate on, from the last one to index 0, complete(Prev)
\* moves it one back, from index 0 to the last one, the list of candidates
\* stays as it is, and Next followed by Prev gives back the hint of s.
NextThenPrevReturns(s) ==
    LET n == Len(HintOf(s).completions)
        j == Unwrap(HintOf(s).i)
        next == complete(s, "Next")
    IN  /\ j < n
        /\ next.ed.show_completions_hint =
              Some([completions |-> HintOf(s).completions,
                    i |-> Some(IF j = n - 1 THEN 0 ELSE j + 1)])
        /\ complete(s, "Prev").ed.show_completions_hint =
              Some([completions |-> HintOf(s).completions,
                    i |-> Some(IF j = 0 THEN n - 1 ELSE j - 1)])
        /\ complete(next, "Prev").ed.show_completions_hint =
              s.ed.show_completions_hint

\* C12: with a completions hint that highlights a candidate, complete(Next)
\* followed by complete(Prev) returns the highlighted selection to what it
\* was, whichever candidate is highlighted (the state itself, and the states
\* one Next or one Prev away from it); Next from the last candidate wraps to
\* index 0 and Prev from index 0 wraps to the last candidate.
C12_NextThenPrevReturnsSelection ==
    (status # "error" /\ Highlighted(St)) =>
        /\ NextThenPrevReturns(St)
        /\ NextThenPrevReturns(complete(St, "Next"))
        /\ NextThenPrevReturns(complete(St, "Prev"))

\* C12, its case: the first of several candidates is highlighted; Prev wraps
\* to the last one, from where Next wraps to index 0 and Prev comes back to
\* the last one.
C12_WrapsAtBothEnds ==
    /\ status = "reading" /\ Highlighted(St)
    /\ Len(HintOf(St).completions) >= 2
    /\ HintOf(St).i = Some(0)
    /\ HintOf(complete(St, "Prev")).i = Some(Len(HintOf(St).completions) - 1)
    /\ HintOf(complete(complete(St, "Prev"), "Next")).i = Some(0)
    /\ HintOf(complete(complete(complete(St, "Prev"), "Next"), "Prev")).i =
          Some(Len(HintOf(St).completions) - 1)
    /\ HintOf(complete(complete(St, "Next"), "Prev")).i = Some(0)

\* The key c pressed n times.
Pressed(c, n) == [i \in 1..n |-> c]

\* The length of the longest run of digits typed.
MaxDigits == 62

\* The digit sequences typed: every one of up to two digits, the values around
\* 2^32 - 1 = 4294967295, and the long runs of tests::vi_count_overflow and
\* tests::vi_count_overflow_zero.
DigitRuns ==
    {<<d>> : d \in Digits}
    \cup {<<d, e>> : d \in {"0", "1", "9"}, e \in {"0", "5", "9"}}
    \cup {<<"4", "2", "9", "4", "9", "6", "7", "2", "9", d>> : d \in {"4", "5", "6"}}
    \cup {<<"4", "2", "9", "4", "9", "6", "7", "3", "0", "0">>,
          <<"4", "2", "9", "4", "9", "6", "7", "2", "8", "9">>,
          <<"0", "0", "4", "2", "9", "4", "9", "6", "7", "2", "9", "5">>,
          <<"1">> \o Pressed("0", 9),
          <<"1">> \o Pressed("0", 10),
          <<"6", "5", "5", "3", "6">>,
          Pressed("9", 9),
          Pressed("9", 10),
          Pressed("9", MaxDigits - 1),
          <<"1">> \o Pressed("0", MaxDigits - 1)}

\* A digit sequence without its leading zeros.
RECURSIVE Significant(_)
Significant(ds) ==
    IF ds # <<>> /\ ds[1] = "0" THEN Significant(Tail(ds)) ELSE ds

\* ds is, digit by digit, a numeral above the numeral limit of equal length.
RECURSIVE NumeralAbove(_, _)
NumeralAbove(ds, limit) ==
    /\ ds # <<>>
    /\ \/ DigitValue(ds[1]) > DigitValue(limit[1])
       \/ /\ ds[1] = limit[1]
          /\ NumeralAbove(Tail(ds), Tail(limit))

\* The decimal value of a numeral that fits 32 bits, in 16-bit halves.
RECURSIVE DecimalValue(_, _)
DecimalValue(ds, acc) ==
    IF ds = <<>> THEN acc
    ELSE DecimalValue(Tail(ds),
                      <<acc[1] * 10 + (acc[2] * 10 + DigitValue(ds[1])) \div Half,
                        (acc[2] * 10 + DigitValue(ds[1])) % Half>>)

\* min(decimal value of ds, 2^32 - 1).
DecimalSaturated(ds) ==
    LET t == Significant(ds)
        limit == <<"4", "2", "9", "4", "9", "6", "7", "2", "9", "5">>
    IN  IF Len(t) > 10 \/ (Len(t) = 10 /\ NumeralAbove(t, limit)) THEN U32Max
        ELSE DecimalValue(t, <<0, 0>>)

\* C13: in Normal mode with no count typed yet, after any sequence of digit
\* keys the count is min(decimal value typed, 2^32 - 1), no key fails, and
\* no buffer is edited: new_buf and the history are as they were, and so is
\* the current buffer (unless a search over a history entry is refreshed by
\* the redraw of a leading 0, which shows new_buf again).
C13_DigitsSaturate ==
    (/\ status = "reading"
     /\ mode(St).m = "Normal"
     /\ vi.count = u32(0)) =>
        \A ds \in DigitRuns :
            LET r == simulate_keys(St, ds)
            IN  /\ ~r.io.err /\ ~r.ret
                /\ mode(r).m = "Normal"
                /\ r.vi.count = DecimalSaturated(ds)
                /\ SearchOverHistoryEntry(St) \/ cur_buf(r).data = cur_buf(St).data
                /\ r.ed.new_buf.data = ed.new_buf.data
                /\ r.ctx.history = ctx.history

\* C13, its case: on a line with text in Normal mode, sixty-one 9s and a 1
\* followed by sixty-one 0s both leave the count at 2^32 - 1, while
\* 4294967295 is reached exactly and 65536 carries into the high half.
C13_LongRunsSaturate ==
    /\ status = "reading" /\ mode(St).m = "Normal" /\ vi.count = u32(0)
    /\ cur_buf(St).data # <<>>
    /\ simulate_keys(St, Pressed("9", MaxDigits - 1)).vi.count = U32Max
    /\ simulate_keys(St, <<"1">> \o Pressed("0", MaxDigits - 1)).vi.count = U32Max
    /\ simulate_keys(St, <<"6", "5", "5", "3", "6">>).vi.count = <<1, 0>>
    /\ simulate_keys(St, <<"4", "2", "9", "4", "9", "6", "7", "2", "9", "4">>).vi.count
          = <<Half - 1, Half - 2>>

\* The counts handed to a movement: none, small ones and a large one.
MoveCounts == {0, 1, 2, MaxLen + 1, Half * (Half \div 2 - 1)}

\* The counts typed in front of a key: none, 2 and one that saturates.
TypedCounts == {<<>>, <<"2">>, Pressed("9", 11)}

\* The boundary operations leave the buffer contents and the cursor of s as
\* they were, without failing: move_cursor_left at cursor 0, move_cursor_right
\* at cursor = num_chars, delete_before_cursor at cursor 0, delete_after_cursor
\* at cursor = num_chars, for any count, and Backspace and $ (as a command) on
\* an empty buffer, after any count.
BoundaryOperationsAreNoOps(s) ==
    /\ s.ed.cursor = 0 =>
          /\ \A n \in MoveCounts :
                /\ ~move_cursor_left(s, n).io.err
                /\ Obs(move_cursor_left(s, n)) = Obs(s)
          /\ ~delete_before_cursor(s).io.err
          /\ Obs(delete_before_cursor(s)) = Obs(s)
    /\ s.ed.cursor = num_chars(cur_buf(s)) =>
          /\ \A n \in MoveCounts :
                /\ ~move_cursor_right(s, n).io.err
                /\ Obs(move_cursor_right(s, n)) = Obs(s)
          /\ ~delete_after_cursor(s).io.err
          /\ Obs(delete_after_cursor(s)) = Obs(s)
    /\ (buf_is_empty(cur_buf(s)) /\ s.ed.cursor = 0) =>
          \A ds \in TypedCounts :
              /\ (ds = <<>> \/ mode(s).m \in {"Normal", "Delete"}) =>
                    /\ ~simulate_keys(s, ds \o <<"Backspace">>).io.err
                    /\ Obs(simulate_keys(s, ds \o <<"Backspace">>)) = Obs(s)
              /\ mode(s).m \in {"Normal", "Delete"} =>
                    /\ ~simulate_keys(s, ds \o <<"$">>).io.err
                    /\ Obs(simulate_keys(s, ds \o <<"$">>)) = Obs(s)

\* C14, as stated, for the states outside search mode: every boundary
\* operation is a no-op on the buffer contents and the cursor and does not
\* fail.
C14_BoundaryOperationsAreNoOps ==
    (status = "reading" /\ ~is_search(St)) => BoundaryOperationsAreNoOps(St)

\* The same from the states that satisfy the cursor invariant and in which
\* the redraw does not switch buffers: what is left of C14 once the state
\* that Esc leaves behind a completions hint (C1) is set aside.
BoundaryOperationsWithValidCursor ==
    (/\ status = "reading"
     /\ CursorInvariant(St)
     /\ ~SearchOverHistoryEntry(St)) => BoundaryOperationsAreNoOps(St)

\* The text of the buffer that is current in s, as it is in the state r.
TextOfCurrentBuffer(s, r) ==
    IF IsSome(s.ed.cur_history_loc)
    THEN r.ctx.history[Unwrap(s.ed.cur_history_loc) + 1].data
    ELSE r.ed.new_buf.data

\* data without its characters in [lo, hi).
Without(data, lo, hi) ==
    SubSeq(data, 1, lo) \o SubSeq(data, hi + 1, Len(data))

\* The position a redraw leaves a cursor at on a line of n characters.
Clamped(cursor, n, no_eol) ==
    IF no_eol /\ n > 0 THEN Min(cursor, n - 1) ELSE Min(cursor, n)

\* C15, as stated: for every cursor c and position p within the buffer,
\* delete_until(p) removes the characters in [min(c,p), max(c,p)), keeps the
\* others in order and leaves the cursor at min(c,p).
C15_DeleteUntilCursorAtMin ==
    status = "reading" =>
        \A p \in 0..num_chars(cur_buf(St)) :
            LET r == delete_until(St, p)
            IN  /\ ~r.io.err
                /\ cur_buf(r).data =
                      Without(cur_buf(St).data, Min(ed.cursor, p), Max(ed.cursor, p))
                /\ r.ed.cursor = Min(ed.cursor, p)

\* C15, amended: delete_until(p) removes the characters in [min(c,p), max(c,p))
\* from the buffer that is current when it is called and keeps the others in
\* order; the cursor is min(c,p) as the redraw that ends the operation leaves
\* it: not past the end of the line it shows, which under no_eol is the last
\* character.
C15_DeleteUntilCursorAtMinClamped ==
    status = "reading" =>
        \A p \in 0..num_chars(cur_buf(St)) :
            LET r == delete_until(St, p)
            IN  /\ ~r.io.err
                /\ TextOfCurrentBuffer(St, r) =
                      Without(cur_buf(St).data, Min(ed.cursor, p), Max(ed.cursor, p))
                /\ r.ed.cursor = Clamped(Min(ed.cursor, p), num_chars(cur_buf(r)),
                                         r.ed.no_eol)
                /\ r.ed.no_eol = ed.no_eol

\* C15, its case: in Normal mode everything from the cursor to the end of a
\* line is deleted and characters remain in front of it: the cursor steps
\* back onto the last of them.
C15_DeletedToEndOfLine ==
    /\ status = "reading" /\ ed.no_eol /\ ~is_search(St)
    /\ 0 < ed.cursor /\ ed.cursor < num_chars(cur_buf(St))
    /\ cur_buf(delete_until(St, num_chars(cur_buf(St)))).data =
          SubSeq(cur_buf(St).data, 1, ed.cursor)
    /\ delete_until(St, num_chars(cur_buf(St))).ed.cursor = ed.cursor - 1

\* C16: in every redraw the width to the cursor does not exceed the width of
\* the frame, so the cursor's line is not below the last line of the frame and
\* unreachable!() is never reached.
C16_CursorLineWithinFrame == ~io.overrun /\ ~io.panicked

\* The text of an autosuggestion, if there is one.
TextOf(o) == IF IsSome(o) THEN Some(Unwrap(o).data) ELSE None

\* The text the autosuggestion of a state is to have: (a) the entry the search
\* has selected, (b) the entry at cur_history_loc, (c) the newest entry that
\* starts with new_buf; none when there is no such entry.
ExpectedSuggestion(s) ==
    IF is_search(s)
    THEN IF SearchHasMatch(s) /\ s.ed.history_subset_index # <<>>
         THEN Some(SelectedEntry(s).data) ELSE None
    ELSE IF IsSome(s.ed.cur_history_loc)
    THEN Some(s.ctx.history[Unwrap(s.ed.cur_history_loc) + 1].data)
    ELSE LET m == {i \in 1..Len(s.ctx.history) :
                    /\ Len(s.ctx.history[i].data) >= Len(s.ed.new_buf.data)
                    /\ SubSeq(s.ctx.history[i].data, 1, Len(s.ed.new_buf.data))
                          = s.ed.new_buf.data}
         IN  IF m = {} THEN None
             ELSE Some(s.ctx.history[CHOOSE i \in m : \A j \in m : j <= i].data)

\* C17: between two operations the stored autosuggestion is the one of the
\* state as it is: the entry the search has selected in search mode, else the
\* entry at cur_history_loc, else the newest entry that starts with new_buf,
\* and absent when there is no such entry; it is never a stale one.
C17_AutosuggestionNeverStale ==
    status # "error" => TextOf(ed.autosuggestion) = ExpectedSuggestion(St)

\* C17, its case: a search has been stepped to an entry that is not the
\* newest one starting with new_buf, and the stored autosuggestion is that
\* entry.
C17_SearchSteppedToOlderEntry ==
    /\ status = "reading" /\ SearchHasMatch(St)
    /\ last \in {"search(true)", "search(false)", "Up", "Down", "k", "j"}
    /\ Len(ed.history_subset_index) >= 2
    /\ ed.history_subset_loc = Some(0)
    /\ TextOf(ed.autosuggestion) = Some(SelectedEntry(St).data)
    /\ TextOf(ed.autosuggestion) # TextOf(Some(ctx.history[Len(ctx.history)]))

\* The count a movement in operator-pending mode moves by.
PendingCount(s) ==
    IF s.vi.count = u32(0)
    THEN (IF s.vi.secondary_count = u32(0) THEN u32(1) ELSE s.vi.secondary_count)
    ELSE IF s.vi.secondary_count = u32(0) THEN s.vi.count
    ELSE saturating_mul(s.vi.secondary_count, s.vi.count)

\* Where a movement key takes the cursor of s in operator-pending mode.
MovementTarget(s, key) ==
    CASE key \in {"h", "Left", "Backspace"} ->
            s.ed.cursor - min_usize(s.ed.cursor, PendingCount(s))
      [] key \in {"l", "Right", " "} ->
            s.ed.cursor
            + min_usize(num_chars(cur_buf(s)) - s.ed.cursor, PendingCount(s))
      [] key \in {"Home", "0"} -> 0
      [] key \in {"End", "$"} -> num_chars(cur_buf(s))

\* In operator-pending mode the key makes its movement and, within the same
\* key, the mode is popped and the characters between the recorded start
\* position and the cursor after the movement are removed.
MovementCompletesOperator(s, key) ==
    LET r == handle_key_core(s, key)
        target == MovementTarget(s, key)
    IN  /\ ~r.io.err
        /\ r.vi.mode_stack = SubSeq(s.vi.mode_stack, 1, Len(s.vi.mode_stack) - 1)
        /\ cur_buf(r).data =
              Without(cur_buf(s).data, Min(mode(s).pos, target),
                      Max(mode(s).pos, target))

\* The movement keys of is_movement_key, and 0 when no count is typed.
MovementKeys(s) ==
    {"h", "l", "Left", "Right", "Backspace", " ", "Home", "End", "$"}
    \cup (IF s.vi.count = u32(0) THEN {"0"} ELSE {})

\* C18: in Delete/Change operator-pending mode every movement key (h, l, Left,
\* Right, Backspace, Space, Home, End, $, and 0 when the count is zero) makes
\* its movement and, within the same key, pops the Delete mode and removes
\* exactly the characters between the recorded start position and the cursor
\* after the movement.
C18_MovementCompletesOperator ==
    (status = "reading" /\ mode(St).m = "Delete") =>
        \A key \in MovementKeys(St) : MovementCompletesOperator(St, key)

\* The same for the movement keys that handle_key_normal takes as movements:
\* all but Home and End, and but 0 after a count typed in front of d or c.
MovementOfNormalModeCompletesOperator ==
    (status = "reading" /\ mode(St).m = "Delete") =>
        \A key \in MovementKeys(St) \ {"Home", "End"} :
            (key = "0" /\ vi.secondary_count # u32(0))
            \/ MovementCompletesOperator(St, key)

\* The keys that leave x, with or without a count, as the last command, and
\* the counts typed in front of `.`.
CountedCommands ==
    {<<"x">>, <<"2", "x">>, <<"3", "x">>, <<"2", "x", "h">>, <<"2", "x", "h", "h">>}

DotCounts == {<<>>, <<"1">>, <<"2">>, <<"3">>, <<"4">>}

\* `.` replays the last command x with the count n: n (at most what is right
\* of the cursor) characters are deleted and n is the last count.
DotReplaysWith(s, n) ==
    LET r == handle_key_core(s, ".")
    IN  /\ ~r.io.err
        /\ r.vi.last_count = u32(n)
        /\ cur_buf(r).data =
              Without(cur_buf(s).data, s.ed.cursor,
                      Min(s.ed.cursor + n, num_chars(cur_buf(s))))

\* The states in which `.` is pressed: Normal mode, x the last command.
DotStates ==
    {simulate_keys(St, keys \o n) : keys \in CountedCommands, n \in DotCounts}

AtDot(s) ==
    /\ ~s.io.err /\ mode(s).m = "Normal" /\ ~is_search(s)
    /\ s.vi.last_command = <<"x">> /\ s.vi.last_insert = None

Keys65535 == <<"6", "5", "5", "3", "5">>

Keys65536 == <<"6", "5", "5", "3", "6">>

Keys65537 == <<"6", "5", "5", "3", "7">>

\* The counts typed in front of the operator and in front of the movement,
\* with the count the movement is to use (absent when neither is typed):
\* the product, 2^32 - 1 when the product is larger.
CountCases ==
    {<<<<>>, <<>>, u32(0)>>,
     <<<<"2">>, <<>>, u32(2)>>,
     <<<<>>, <<"2">>, u32(2)>>,
     <<<<"2">>, <<"2">>, u32(4)>>,
     <<<<"2">>, <<"3">>, u32(6)>>,
     <<<<"1", "0">>, <<"2", "0">>, u32(200)>>,
     <<Keys65536, Keys65535, <<Half - 1, 0>>>>,
     <<Keys65535, Keys65537, U32Max>>,
     <<Keys65536, Keys65536, U32Max>>,
     <<Pressed("9", 11), <<"2">>, U32Max>>,
     <<Pressed("9", 11), <<>>, U32Max>>}

\* min(available, the count the movement uses).
MovedBy(available, n) ==
    IF n = u32(0) THEN Min(available, 1)
    ELSE IF n[1] > 0 THEN available ELSE Min(available, n[2])

\* The operator with the counts of the case and the movement mv delete the
\* number of characters of the case, at most those on that side of the cursor,
\* and the count used is recorded as the last count.
OperatorDeletesCounted(s, case, op, mv) ==
    LET r == handle_keys(s, case[1] \o <<op>> \o case[2] \o <<mv>>)
        c == s.ed.cursor
        n == num_chars(cur_buf(s))
    IN  /\ ~r.io.err
        /\ r.vi.last_count = case[3]
        /\ mode(r).m = (IF op = "c" THEN "Insert" ELSE "Normal")
        /\ cur_buf(r).data =
              IF mv \in {"l", "Right", " "}
              THEN Without(cur_buf(s).data, c, c + MovedBy(n - c, case[3]))
              ELSE Without(cur_buf(s).data, c - MovedBy(c, case[3]), c)

\* C20: with a count a typed before d or c and a count b typed before the
\* movement, the movement uses a * b saturated at 2^32 - 1 when both are typed,
\* the one typed when only one is, and 1 when neither is, and the number of
\* characters deleted is that value clamped to the characters available.
C20_CountsMultiplySaturated ==
    AtNormalCommand =>
        \A case \in CountCases, op \in {"d", "c"} :
            /\ \A mv \in {"l", "h"} : OperatorDeletesCounted(St, case, op, mv)
            /\ case[3] \in {u32(2), u32(4)} =>
                  \A mv \in {"Left", "Right", "Backspace", " "} :
                      OperatorDeletesCounted(St, case, op, mv)

\* C20, its case: on a line of three characters with the cursor at its start,
\* d2l deletes two characters, 2d2l deletes all three (four are asked for),
\* and so does 65536d65536l, whose count saturates.
C20_ProductClampedToLine ==
    /\ AtNormalCommand
    /\ num_chars(cur_buf(St)) = 3 /\ ed.cursor = 0
    /\ num_chars(cur_buf(handle_keys(St, <<"d", "2", "l">>))) = 1
    /\ num_chars(cur_buf(handle_keys(St, <<"2", "d", "2", "l">>))) = 0
    /\ handle_keys(St, <<"2", "d", "2", "l">>).vi.last_count = u32(4)
    /\ handle_keys(St, Keys65536 \o <<"d">> \o Keys65536 \o <<"l">>).vi.last_count
          = U32Max

\* The Replace-mode states of a state: the state itself when it waits for the
\* character of an r, and the states a count and r lead to from Normal mode.
ReplaceCounts == {<<>>, <<"1">>, <<"2">>, <<"3">>, <<"4">>, Keys65536}

ReplaceStates(s) ==
    IF mode(s).m = "Replace" THEN {s}
    ELSE IF mode(s).m = "Normal" /\ s.vi.count = u32(0)
    THEN {handle_keys(s, n \o <<"r">>) : n \in ReplaceCounts}
    ELSE {}

\* The n characters from position lo + 1 on, each replaced by c.
ReplacedBy(data, lo, n, c) ==
    [i \in 1..Len(data) |-> IF lo < i /\ i <= lo + n THEN c ELSE data[i]]

\* max(count, 1) characters remain at or after the cursor.
EnoughToReplace(s) ==
    /\ s.vi.count[1] = 0
    /\ Max(s.vi.count[2], 1) <= num_chars(cur_buf(s)) - s.ed.cursor

\* The character key c in the Replace-mode state s.
ReplaceKeyReplaces(s, c) ==
    LET r == handle_key_core(s, c)
        n == Max(s.vi.count[2], 1)
    IN  /\ ~r.io.err
        /\ mode(r).m = "Normal"
        /\ r.vi.count = u32(0)
        /\ IF EnoughToReplace(s)
           THEN /\ cur_buf(r).data = ReplacedBy(cur_buf(s).data, s.ed.cursor, n, c)
                /\ r.ed.cursor = s.ed.cursor + n - 1
           ELSE Obs(r) = Obs(s)

\* C21: in Replace mode a character key c with n = max(count, 1) replaces
\* exactly the n characters at and after the cursor by c and leaves the cursor
\* on the last of them when n characters remain, leaves buffer and cursor as
\* they are otherwise, and returns to Normal mode with count 0 in both cases.
C21_ReplaceWithCount ==
    status = "reading" =>
        \A s \in ReplaceStates(St) : ~s.io.err =>
            \A c \in TextChars \cup {"r", "2"} : ReplaceKeyReplaces(s, c)

\* The replacement where no redraw switches buffers (no search over a history
\* entry): the law holds in every such Replace-mode state.
ReplaceWithCountOnOneBuffer ==
    (status = "reading" /\ ~SearchOverHistoryEntry(St)) =>
        \A s \in ReplaceStates(St) : ~s.io.err =>
            \A c \in TextChars \cup {"r", "2"} : ReplaceKeyReplaces(s, c)

\* The keys that lead from Normal mode to Replace mode: r alone, r after a
\* count, and r after an operator with a count that was aborted.
ReplacePreludes ==
    {<<"r">>, <<"2", "r">>, <<"2", "d", "Esc", "r">>, <<"3", "c", "x", "2", "r">>}

\* The key that is not a character, in the Replace-mode state s: Normal mode,
\* no count, and the text of every buffer as it was.
ReplaceAborts(s, key) ==
    LET r == handle_key_core(s, key)
    IN  /\ ~r.io.err
        /\ mode(r).m = "Normal" /\ r.vi.mode_stack = <<>>
        /\ r.vi.count = u32(0)
        /\ Obs(r) = Obs(s)
        /\ r.ed.new_buf.data = s.ed.new_buf.data
        /\ r.ctx.history = s.ctx.history

\* C22, as stated: in Replace mode a key that is not a character returns to Normal mode
\* with count = 0 and secondary_count = 0 and leaves the buffer unchanged,
\* whatever keys preceded the r.
C22_ReplaceAbortClearsAllCounts ==
    (status = "reading" /\ mode(St).m = "Normal" /\ vi.count = u32(0)) =>
        \A keys \in ReplacePreludes, key \in SpecialKeys :
            LET s == handle_keys(St, keys)
            IN  (~s.io.err /\ mode(s).m = "Replace") =>
                    /\ ReplaceAborts(s, key)
                    /\ handle_key_core(s, key).vi.secondary_count = u32(0)

\* C22, amended: in Replace mode a key that is not a character returns to
\* Normal mode with count = 0 and leaves every buffer unchanged, whatever keys
\* preceded the r; secondary_count is left as it was.
C22_ReplaceAbortClearsCount ==
    (status = "reading" /\ mode(St).m = "Normal" /\ vi.count = u32(0)) =>
        \A keys \in ReplacePreludes, key \in SpecialKeys :
            LET s == handle_keys(St, keys)
            IN  (~s.io.err /\ mode(s).m = "Replace") =>
                    /\ ReplaceAborts(s, key)
                    /\ handle_key_core(s, key).vi.secondary_count
                          = (IF Len(keys) < 4 THEN vi.secondary_count
                             ELSE u32(DigitValue(keys[1])))

\* C22, its case: an operator with count 2 was aborted and r then aborted as
\* well: the 2 is still in secondary_count.
C22_StaleSecondaryCount ==
    /\ status = "reading" /\ mode(St).m = "Normal" /\ vi.count = u32(0)
    /\ mode(handle_keys(St, <<"2", "d", "Esc", "r">>)).m = "Replace"
    /\ handle_keys(St, <<"2", "d", "Esc", "r", "Esc">>).vi.secondary_count = u32(2)

\* A state with its secondary_count put to 0.
SecondaryCleared(s) == [s EXCEPT !.vi.secondary_count = u32(0)]

\* The count left behind is never read: after the two aborts every key does
\* to the state what it does to the state with secondary_count = 0, up to the
\* value of secondary_count in Normal mode, where the next d or c overwrites it.
StaleSecondaryCountIsNeverRead ==
    C22_StaleSecondaryCount =>
        LET s == handle_keys(St, <<"2", "d", "Esc", "r", "Esc">>)
        IN  \A key \in CommandChars \cup TextChars \cup SpecialKeys :
                LET r == handle_key_core(s, key)
                    q == handle_key_core(SecondaryCleared(s), key)
                IN  IF mode(r).m \in {"Normal", "Insert", "Replace"}
                    THEN SecondaryCleared(r) = SecondaryCleared(q)
                    ELSE r = q

\* The keys that lead from Normal mode to the operator-pending mode: d or c,
\* with or without counts in front of and behind the operator.
OperatorPreludes ==
    {n \o <<op>> \o k : n \in {<<>>, <<"2">>}, op \in {"d", "c"},
                        k \in {<<>>, <<"3">>, <<"1", "0">>}}

\* The operator-pending states of a state: the state itself when an operator
\* waits for its movement, and the states the preludes lead to from Normal mode.
OperatorStates(s) ==
    IF mode(s).m = "Delete" THEN {s}
    ELSE IF mode(s).m = "Normal" /\ s.vi.count = u32(0)
    THEN {handle_keys(s, keys) : keys \in OperatorPreludes}
    ELSE {}

\* The keys that are neither movements, nor digits, nor the operator repeated.
AbortKeys(s) ==
    {key \in (CommandChars \cup TextChars \cup SpecialKeys \cup {"\n", "\t"})
               \ Digits :
        /\ ~is_movement_key(key)
        /\ ~(key = "d" /\ s.vi.current_insert = None)
        /\ ~(key = "c" /\ s.vi.current_insert = Some("c"))}

\* C23: in operator-pending mode a key that is neither a movement key, nor a
\* digit, nor the operator repeated (c after d and d after c included) aborts:
\* buffer contents and cursor are as they were, the mode stack is empty
\* (Normal mode, also for a pending c) and count is 0.
C23_OtherKeyAbortsOperator ==
    status = "reading" =>
        \A s \in OperatorStates(St) : ~s.io.err =>
            \A key \in AbortKeys(s) :
                LET r == handle_key_core(s, key)
                IN  /\ ~r.io.err
                    /\ Obs(r) = Obs(s)
                    /\ r.ed.new_buf.data = s.ed.new_buf.data
                    /\ r.ctx.history = s.ctx.history
                    /\ r.vi.mode_stack = <<>>
                    /\ r.vi.count = u32(0)

\* C23, its case: a c typed with a count waits for its movement (Insert mode
\* lies under it on the mode stack), and d (not the operator repeated) aborts
\* it to Normal mode.
C23_PendingChangeAborted ==
    /\ status = "reading"
    /\ mode(St).m = "Delete" /\ Len(vi.mode_stack) = 2
    /\ vi.current_insert = Some("c")
    /\ vi.count # u32(0)
    /\ "d" \in AbortKeys(St)
    /\ handle_key_core(St, "d").vi.mode_stack = <<>>
    /\ num_chars(cur_buf(St)) > 0

\* The operator repeated in the operator-pending state s.
RepeatedOperator(s) == IF s.vi.current_insert = Some("c") THEN "c" ELSE "d"

\* dd or cc in the operator-pending state s: the current buffer is empty, the
\* cursor 0, both counts 0, and the mode Normal after dd, Insert after cc.
OperatorRepeatedEmptiesLine(s) ==
    LET r == handle_key_core(s, RepeatedOperator(s))
    IN  /\ ~r.io.err
        /\ cur_buf(r).data = <<>>
        /\ r.ed.cursor = 0
        /\ r.vi.count = u32(0) /\ r.vi.secondary_count = u32(0)
        /\ mode(r).m = (IF RepeatedOperator(s) = "c" THEN "Insert" ELSE "Normal")

\* C24: in operator-pending mode the operator repeated (dd or cc) empties the
\* current buffer whatever the cursor position and the counts were, sets the
\* cursor to 0 and both counts to 0, and returns to Normal mode after dd and to
\* Insert mode after cc.
C24_OperatorRepeatedEmptiesLine ==
    status = "reading" =>
        \A s \in OperatorStates(St) : ~s.io.err => OperatorRepeatedEmptiesLine(s)

\* The repeated operator where no redraw switches buffers (no search over a
\* history entry): the law holds in every such operator-pending state.
OperatorRepeatedEmptiesLineOfOneBuffer ==
    (status = "reading" /\ ~SearchOverHistoryEntry(St)) =>
        \A s \in OperatorStates(St) : ~s.io.err => OperatorRepeatedEmptiesLine(s)

\* The counts, the keys that enter Insert mode and the texts typed there.
InsertCounts == {<<"1">>, <<"2">>, <<"3">>}

InsertKeys == {"i", "a", "A", "I"}

InsertTexts == {<<>>, <<"x">>, <<"2", "\\">>}

\* data with text put in at position p.
InsertedAt(data, p, text) ==
    SubSeq(data, 1, p) \o text \o SubSeq(data, p + 1, Len(data))

\* The count n, an insert key, the text and Esc, typed in the state s: the
\* text stands n times where the cursor was when Insert mode was entered.
InsertRepeatsText(s, n, key, text) ==
    LET e == simulate_keys(s, n \o <<key>>)
        r == simulate_keys(e, text \o <<"Esc">>)
        all == Times(text, as_usize(e.vi.count))
    IN  (~e.io.err /\ ~r.io.err) =>
            /\ mode(e).m = "Insert" /\ e.vi.count = DecimalSaturated(n)
            /\ cur_buf(r).data = InsertedAt(cur_buf(e).data, e.ed.cursor, all)
            /\ r.ed.cursor = Max(e.ed.cursor + Len(all) - 1, 0)
            /\ mode(r).m = "Normal"
            /\ r.vi.count = u32(0)

\* C25: in Normal mode with a count n >= 1, an insert key (i, a, A, I)
\* followed by character keys and Esc, with no movement key in between, leaves
\* the text typed inserted exactly n consecutive times at the insertion point,
\* moves the cursor left by one (not below 0), returns to Normal mode and
\* resets count to 0.
C25_InsertWithCountRepeatsText ==
    (status = "reading" /\ mode(St).m = "Normal" /\ vi.count = u32(0)) =>
        \A n \in InsertCounts, key \in InsertKeys, text \in InsertTexts :
            InsertRepeatsText(St, n, key, text)

\* The counted insertion where no redraw switches buffers (no search over a
\* history entry): the law holds from every such Normal-mode state.
InsertWithCountRepeatsTextInOneBuffer ==
    (/\ status = "reading" /\ mode(St).m = "Normal" /\ vi.count = u32(0)
     /\ ~SearchOverHistoryEntry(St)) =>
        \A n \in InsertCounts, key \in InsertKeys, text \in InsertTexts :
            InsertRepeatsText(St, n, key, text)

\* The movement keys of Insert mode.
InsertMovements == {"Left", "Right", "Home", "End", "Up", "Down"}

\* The text of every buffer of the editor.
Texts(s) == <<s.ed.new_buf.data, [i \in 1..Len(s.ctx.history) |-> s.ctx.history[i].data]>>

\* In the Insert-mode state s the movement key resets the count, the count
\* stays 0 while text is typed, and the Esc that follows repeats nothing: it
\* leaves the text of every buffer as it finds it.
MovementResetsCount(s, key, text) ==
    LET r == handle_key_core(s, key)
        g == handle_keys(r, text)
        f == handle_key_core(g, "Esc")
    IN  (~r.io.err /\ ~g.io.err /\ ~f.io.err) =>
            /\ r.vi.count = u32(0)
            /\ mode(g).m = "Insert" /\ g.vi.count = u32(0)
            /\ Texts(f) = Texts(g)
            /\ mode(f).m = "Normal" /\ f.vi.count = u32(0)

\* C26: a movement key (Left, Right, Home, End, Up or Down) pressed in Insert
\* mode resets the pending count to 0, so that the Esc that follows repeats
\* nothing of the text inserted, whatever count was typed before Insert mode
\* was entered.
C26_MovementInInsertResetsCount ==
    /\ (status = "reading" /\ mode(St).m = "Insert") =>
          \A key \in InsertMovements, text \in {<<>>, <<"a">>} :
              MovementResetsCount(St, key, text)
    /\ (status = "reading" /\ mode(St).m = "Normal" /\ vi.count = u32(0)) =>
          \A enter \in {<<"3", "i", "x">>, <<"2", "a", "x", "\\">>},
             key \in InsertMovements, text \in {<<>>, <<"a">>} :
              LET s == handle_keys(St, enter)
              IN  (~s.io.err) => (s.vi.count # u32(0)
                                   /\ MovementResetsCount(s, key, text))

\* C26, its case: on an empty line 3, i, x, Esc leaves xxx, and with Left
\* pressed in front of the Esc the x stands once.
C26_LeftCancelsRepetition ==
    /\ status = "reading" /\ mode(St).m = "Normal" /\ vi.count = u32(0)
    /\ ~is_search(St)
    /\ cur_buf(St).data = <<>>
    /\ cur_buf(handle_keys(St, <<"3", "i", "x", "Esc">>)).data = <<"x", "x", "x">>
    /\ handle_keys(St, <<"3", "i", "x">>).vi.count = u32(3)
    /\ cur_buf(handle_keys(St, <<"3", "i", "x", "Left", "Esc">>)).data = <<"x">>

\* The history entries that begin with the text of new_buf.
PrefixMatches(s) ==
    {i \in 0..(history_len(s) - 1) :
        LET e == history_at(s, i).data
            q == s.ed.new_buf.data
        IN  Len(q) <= Len(e) /\ \A k \in 1..Len(q) : e[k] = q[k]}

\* A sequence lists the set S in ascending order.
Lists(seq, S) ==
    /\ Len(seq) = Cardinality(S)
    /\ \A k \in 1..Len(seq) : seq[k] \in S
    /\ \A k \in 1..(Len(seq) - 1) : seq[k] < seq[k + 1]

\* The subset entry at place i is the current buffer.
SelectsSubsetEntry(r, i) ==
    /\ r.ed.history_subset_loc = Some(i)
    /\ r.ed.cur_history_loc = Some(r.ed.history_subset_index[i + 1])

\* One step of browsing, from s to r: what move_up and move_down do to the
\* subset and the selection, with the cursor at the end of the line selected.
BrowseStep(s, r, step) ==
    LET loc == s.ed.history_subset_loc
        top == Len(s.ed.history_subset_index) - 1
    IN  /\ ~r.io.err
        /\ Texts(r) = Texts(s)
        /\ ~is_search(r)
        /\ r.ed.cursor = EndOfLine(r)
        /\ (step = "up" /\ loc = None /\ PrefixMatches(s) # {}) =>
              /\ Lists(r.ed.history_subset_index, PrefixMatches(s))
              /\ SelectsSubsetEntry(r, Cardinality(PrefixMatches(s)) - 1)
        /\ (step = "up" /\ loc # None) =>
              /\ r.ed.history_subset_index = s.ed.history_subset_index
              /\ SelectsSubsetEntry(r, Max(Unwrap(loc) - 1, 0))
        /\ (step = "down" /\ loc # None /\ Unwrap(loc) < top) =>
              /\ r.ed.history_subset_index = s.ed.history_subset_index
              /\ SelectsSubsetEntry(r, Unwrap(loc) + 1)
        /\ (step = "down" /\ loc # None /\ Unwrap(loc) = top) =>
              /\ r.ed.history_subset_loc = None
              /\ r.ed.history_subset_index = <<>>
              /\ r.ed.cur_history_loc = None

Browse(s, step) == IF step = "up" THEN move_up(s) ELSE move_down(s)

\* Every step of a sequence of move_up and move_down is a step of browsing.
RECURSIVE BrowseSteps(_, _)
BrowseFrom(s, r, steps) ==
    BrowseStep(s, r, steps[1]) /\ BrowseSteps(r, Tail(steps))

BrowseSteps(s, steps) ==
    steps = <<>> \/ BrowseFrom(s, Browse(s, steps[1]), steps)

\* The sequences of up to three steps.
BrowseSequences ==
    UNION {[1..n -> {"up", "down"}] : n \in 1..3}

HintSwallowsMovement(s) ==
    /\ \A count \in 1..2 :
          \A r \in {move_cursor_left(s, count), move_cursor_right(s, count)} :
              /\ ~r.io.err
              /\ r.ed.cursor = s.ed.cursor
              /\ Texts(r) = Texts(s)
              /\ cur_buf(r).data = cur_buf(s).data
              /\ r.ed.show_completions_hint = s.ed.show_completions_hint
    /\ \A r \in {move_up(s), move_down(s)} :
          /\ r.ed = s.ed
          /\ r.ctx = s.ctx

\* C28: while a completions hint is present, move_cursor_left and
\* move_cursor_right leave the cursor and the buffer unchanged and only redraw,
\* and move_up and move_down change neither cur_history_loc, the history
\* subset, the cursor nor the buffer.
C28_HintSwallowsMovement ==
    (status = "reading" /\ ed.show_completions_hint # None) =>
        HintSwallowsMovement(St)

\* C28, its case: a hint is on screen with the cursor behind a character and
\* a history to go up in; without the hint move_cursor_left would move the
\* cursor and move_up would select a history entry.
C28_HintOverMovableCursor ==
    /\ status = "reading" /\ ed.show_completions_hint # None
    /\ ed.cursor > 0
    /\ history_len(St) > 0 /\ ed.cur_history_loc = None
    /\ move_cursor_left([St EXCEPT !.ed.show_completions_hint = None], 1).ed.cursor
          = ed.cursor - 1
    /\ move_up([St EXCEPT !.ed.show_completions_hint = None]).ed.cur_history_loc
          # None
    /\ move_cursor_left(St, 1).ed.cursor = ed.cursor
    /\ move_up(St).ed.cur_history_loc = None

\* search(forward) in the state s of a search with matches: the selection
\* moves by one place, wrapping at either end, and the direction of the search
\* and the matches stay as they are.
SearchStepsByOne(s, forward) ==
    LET r == search(s, forward)
        n == Len(s.ed.history_subset_index)
        p == Unwrap(s.ed.history_subset_loc)
    IN  /\ ~r.io.err
        /\ s.ed.history_subset_loc # None
        /\ r.ed.history_subset_loc =
              Some(IF forward THEN (p + 1) % n ELSE (p + n - 1) % n)
        /\ r.ed.forward_search = s.ed.forward_search
        /\ r.ed.reverse_search = s.ed.reverse_search
        /\ r.ed.history_subset_index = s.ed.history_subset_index

\* C29: when a search is active with a non-empty match set, search(forward)
\* moves history_subset_loc by exactly one position (forward: +1, from the
\* last match to the first; reverse: -1, from the first to the last) and
\* leaves forward_search and reverse_search unchanged, also when forward
\* differs from the direction the search was started with.
C29_SearchStepsByOne ==
    (status = "reading" /\ is_search(St) /\ Len(ed.history_subset_index) > 0) =>
        \A forward \in BOOLEAN : SearchStepsByOne(St, forward)

\* C29, its case: a reverse search stands on the last of two matches, and
\* search(true) wraps to the first while the search stays a reverse one.
C29_ForwardStepInReverseSearch ==
    /\ status = "reading"
    /\ ed.reverse_search /\ ~ed.forward_search
    /\ Len(ed.history_subset_index) = 2
    /\ ed.history_subset_loc = Some(1)
    /\ search(St, TRUE).ed.history_subset_loc = Some(0)
    /\ search(St, TRUE).ed.reverse_search
    /\ search(St, FALSE).ed.history_subset_loc = Some(0)
    /\ search(search(St, FALSE), FALSE).ed.history_subset_loc = Some(1)

\* A history in which a changed query can drop the selected entry while it
\* keeps entries on both sides of it.
HistoriesForSearch ==
    {<<BufferOf(<<"x">>), BufferOf(<<"a">>), BufferOf(<<"a", "x">>)>>}

\* A session over that history.
InitSearch == InitWith(HistoriesForSearch)

SpecSearch == InitSearch /\ [][Next]_vars

\* The text q occurs in the text e.
Occurs(q, e) ==
    \E k \in 0..(Len(e) - Len(q)) : \A j \in 1..Len(q) : e[k + j] = q[j]

\* The history entries the query of a search matches.
MatchesOf(s) ==
    {i \in 0..(history_len(s) - 1) : Occurs(s.ed.new_buf.data, history_at(s, i).data)}

\* The history index selected, -1 for none.
Selected(s) ==
    IF s.ed.history_subset_loc # None /\ s.ed.history_subset_index # <<>>
    THEN s.ed.history_subset_index[Unwrap(s.ed.history_subset_loc) + 1]
    ELSE -1

\* The edits of the query.
QueryEdits == {"a", "x", "delete_before_cursor", "delete_after_cursor"}

EditQuery(s, op) ==
    CASE op = "delete_before_cursor" -> delete_before_cursor(s)
      [] op = "delete_after_cursor" -> delete_after_cursor(s)
      [] OTHER -> insert_after_cursor(s, op)

\* The redraw that brought s to r has recomputed the matches in the direction
\* of the search and selected the match closest to the entry selected in s.
RefreshSelectsClosest(s, r) ==
    LET t == Selected(s)
        M == MatchesOf(r)
        above == {m \in M : m >= t}
        below == {m \in M : m <= t}
    IN  /\ ~r.io.err
        /\ Lists(r.ed.history_subset_index, M)
        /\ r.ed.forward_search = s.ed.forward_search
        /\ r.ed.reverse_search = s.ed.reverse_search
        /\ (M = {}) = (r.ed.history_subset_loc = None)
        /\ M # {} => Selected(r) \in M
        /\ (t >= 0 /\ s.ed.forward_search /\ above # {}) =>
              (Selected(r) \in above /\ \A m \in above : Selected(r) <= m)
        /\ (t >= 0 /\ s.ed.reverse_search /\ below # {}) =>
              (Selected(r) \in below /\ \A m \in below : m <= Selected(r))

\* C30: when the query changes during a search, the next redraw recomputes the
\* match set in the direction of the search and moves the selection to the
\* match closest to the history index t selected before: the smallest matching
\* index >= t for a forward search and the largest matching index <= t for a
\* reverse search, when there is one; with no match history_subset_loc becomes
\* absent. A refresh with the query unchanged keeps the selection.
C30_RefreshSelectsClosestMatch ==
    (status = "reading" /\ is_search(St) /\ ed.cur_history_loc = None) =>
        /\ \A op \in QueryEdits : RefreshSelectsClosest(St, EditQuery(St, op))
        /\ \A op \in QueryEdits, c \in {"a", "x"} :
              ~EditQuery(St, op).io.err =>
                  RefreshSelectsClosest(EditQuery(St, op),
                                        insert_after_cursor(EditQuery(St, op), c))
        /\ Selected(display([St EXCEPT !.ed.buffer_changed = TRUE])) = Selected(St)
        /\ display([St EXCEPT !.ed.buffer_changed = TRUE]).ed.history_subset_loc
              = ed.history_subset_loc

\* C30, its case: a reverse search over x, a, ax stands on a (index 1); with x
\* typed into the query the matches are x and ax (0 and 2) and the selection
\* moves to 0, the largest match below; a forward search would move to 2.
C30_SelectedEntryDropsOut ==
    /\ status = "reading" /\ ed.reverse_search /\ ed.cur_history_loc = None
    /\ ed.new_buf.data = <<>>
    /\ Selected(St) = 1
    /\ MatchesOf(insert_after_cursor(St, "x")) = {0, 2}
    /\ Selected(insert_after_cursor(St, "x")) = 0
    /\ Selected(insert_after_cursor(
                   [St EXCEPT !.ed.reverse_search = FALSE,
                              !.ed.forward_search = TRUE], "x")) = 2

\* The entry a search started from s in the given direction selects first,
\* as the documentation of search has it: the top of the matches M (forward)
\* or their bottom (reverse), or, from the history entry t, the closest match
\* at or after t (forward) or at or before t (reverse) when there is one.
StartsSearchFrom(r, forward, t) ==
    LET M == MatchesOf(r)
        above == {m \in M : m >= t}
        below == {m \in M : m <= t}
    IN  /\ Lists(r.ed.history_subset_index, M)
        /\ r.ed.forward_search = forward /\ r.ed.reverse_search = ~forward
        /\ (M = {}) = (r.ed.history_subset_loc = None)
        /\ M # {} => Selected(r) \in M
        /\ (M # {} /\ t < 0) =>
              \A m \in M : IF forward THEN Selected(r) <= m ELSE m <= Selected(r)
        /\ (t >= 0 /\ forward /\ above # {}) =>
              (Selected(r) \in above /\ \A m \in above : Selected(r) <= m)
        /\ (t >= 0 /\ ~forward /\ below # {}) =>
              (Selected(r) \in below /\ \A m \in below : m <= Selected(r))

\* The history entry browsed to, -1 for none.
CurHistoryLoc(s) ==
    IF IsSome(s.ed.cur_history_loc) THEN Unwrap(s.ed.cur_history_loc) ELSE -1

\* C31: a search started while none is active begins at the top of the match
\* set (forward) or at its bottom (reverse), unless a history entry is selected
\* (cur_history_loc present): then the first match is positioned relative to
\* that entry.
C31_SearchStartsAtCurHistoryLoc ==
    (status = "reading" /\ ~is_search(St)) =>
        \A forward \in BOOLEAN :
            ~search(St, forward).io.err =>
                StartsSearchFrom(search(St, forward), forward, CurHistoryLoc(St))

\* What refresh_search does: the start is positioned relative to the entry
\* selected in the prefix subset (search_history_loc), which a history entry
\* browsed to with an empty new_buf does not set.
SearchStartsAtSubsetLoc ==
    (status = "reading" /\ ~is_search(St)) =>
        \A forward \in BOOLEAN :
            ~search(St, forward).io.err =>
                StartsSearchFrom(search(St, forward), forward, Selected(St))

\* The terminal widths a completion may find.
Widths == 1..8

\* The index highlighted in the hint of s, -1 for none.
HighlightedIndex(s) ==
    IF IsSome(s.ed.show_completions_hint)
       /\ IsSome(Unwrap(s.ed.show_completions_hint).i)
    THEN Unwrap(Unwrap(s.ed.show_completions_hint).i)
    ELSE -1

\* The candidates of the hint of s.
Candidates(s) == Unwrap(s.ed.show_completions_hint).completions

\* The highlight i moved by one row of a grid of cols columns over n
\* candidates, left where it is when the target is outside the list.
RowStep(i, completion_type, cols, n) ==
    LET target == IF completion_type = "Up" THEN i - cols ELSE i + cols
    IN  IF target < 0 \/ target > n - 1 THEN i ELSE target

\* C32: with a highlighted completion at index i, complete(Up) moves the
\* highlight to i - cols and complete(Down) to i + cols, cols being the number
\* of columns the grid is rendered in at the same terminal width, and leaves it
\* at i when the target is outside the candidate list; the highlighted index is
\* always a valid index of the list.
C32_UpDownStepByGridColumns ==
    (status = "reading" /\ HighlightedIndex(St) >= 0) =>
        \A w \in Widths, completion_type \in {"Up", "Down"} :
            LET s == [St EXCEPT !.io.width = w]
                r == complete(s, completion_type)
            IN  ~r.io.err =>
                   /\ Candidates(r) = Candidates(s)
                   /\ HighlightedIndex(r) \in 0..(Len(Candidates(r)) - 1)
                   /\ HighlightedIndex(r) =
                         RowStep(HighlightedIndex(s), completion_type,
                                 completion_cols(Candidates(s), w),
                                 Len(Candidates(s)))

\* What complete does: Up and Down step by one less than the number of
\* candidates of maximal width that fit the terminal width, and the highlight
\* stays a valid index.
UpDownStepByItemsPerLine ==
    (status = "reading" /\ HighlightedIndex(St) >= 0) =>
        \A w \in Widths, completion_type \in {"Up", "Down"} :
            LET s == [St EXCEPT !.io.width = w]
                r == complete(s, completion_type)
                step == Max(1, w \div max_word_size(Candidates(s))) - 1
            IN  ~r.io.err =>
                   /\ Candidates(r) = Candidates(s)
                   /\ HighlightedIndex(r) \in 0..(Len(Candidates(r)) - 1)
                   /\ HighlightedIndex(r) =
                         RowStep(HighlightedIndex(s), completion_type, step,
                                 Len(Candidates(s)))

\* The word complete resolves in s: its start and its text (the cursor and the
\* empty text when the cursor is not in or behind a word).
WordStart(s) ==
    IF IsSome(get_word_before_cursor(s, FALSE))
    THEN Unwrap(get_word_before_cursor(s, FALSE))[1] ELSE s.ed.cursor

CurrentWord(s) ==
    IF IsSome(get_word_before_cursor(s, FALSE))
    THEN Slice(cur_buf(s).data, Unwrap(get_word_before_cursor(s, FALSE))[1],
               Unwrap(get_word_before_cursor(s, FALSE))[2])
    ELSE <<>>

\* The candidates the completer has for the word of s.
CandidateSet(s) ==
    IF IsSome(s.ctx.completer)
    THEN {c \in {Unwrap(s.ctx.completer)[k] :
                    k \in 1..Len(Unwrap(s.ctx.completer))} :
             /\ Len(c) >= Len(CurrentWord(s))
             /\ \A j \in 1..Len(CurrentWord(s)) : c[j] = CurrentWord(s)[j]}
    ELSE {}

\* The longest text every candidate of C starts with.
CommonPrefixes(C) ==
    {p \in UNION {{SubSeq(c, 1, k) : k \in 0..Len(c)} : c \in C} :
        \A c \in C : Len(c) >= Len(p) /\ SubSeq(c, 1, Len(p)) = p}

LongestCommonPrefix(C) ==
    CHOOSE p \in CommonPrefixes(C) : \A q \in CommonPrefixes(C) : Len(q) <= Len(p)

\* In r the text between the start of the word of s and the cursor of s has
\* been replaced by text and the cursor stands behind it (on its last
\* character where no_eol keeps it off the end of the line); no hint is shown.
WordReplacedBy(s, r, text) ==
    /\ cur_buf(r).data = SubSeq(cur_buf(s).data, 1, WordStart(s)) \o text
                           \o SubSeq(cur_buf(s).data, s.ed.cursor + 1,
                                     Len(cur_buf(s).data))
    /\ r.ed.cursor = Clamped(WordStart(s) + Len(text), Len(cur_buf(r).data),
                              r.ed.no_eol)
    /\ r.ed.show_completions_hint = None

\* The hint of r lists the candidates of C sorted and without duplicates, none
\* highlighted.
HintLists(r, C) ==
    /\ IsSome(r.ed.show_completions_hint)
    /\ HintOf(r).i = None
    /\ Len(HintOf(r).completions) = Cardinality(C)
    /\ \A k \in 1..Len(HintOf(r).completions) : HintOf(r).completions[k] \in C
    /\ \A k \in 1..(Len(HintOf(r).completions) - 1) :
          /\ HintOf(r).completions[k] # HintOf(r).completions[k + 1]
          /\ str_le(HintOf(r).completions[k], HintOf(r).completions[k + 1])

\* complete without an active hint: the four cases.
CompletesWord(s, r) ==
    LET C == CandidateSet(s)
    IN  IF C = {}
        THEN /\ cur_buf(r).data = cur_buf(s).data
             /\ r.ed.cursor = s.ed.cursor
             /\ r.ed.show_completions_hint = None
        ELSE IF Cardinality(C) = 1
        THEN \A c \in C : WordReplacedBy(s, r, c)
        ELSE IF Len(LongestCommonPrefix(C)) > Len(CurrentWord(s))
        THEN WordReplacedBy(s, r, LongestCommonPrefix(C))
        ELSE /\ HintLists(r, C)
             /\ cur_buf(r).data = cur_buf(s).data

\* C33: complete invoked with no active hint: with no candidate, buffer, cursor
\* and hint are unchanged; one candidate replaces the word before the cursor
\* and leaves no hint; several candidates whose longest common prefix starts
\* with the current word and is strictly longer replace the word with that
\* prefix and leave no hint; otherwise the sorted, de-duplicated candidates
\* become the hint, none highlighted, and the buffer is unchanged.
C33_CompleteWithoutHint ==
    (status = "reading" /\ ed.show_completions_hint = None) =>
        \A completion_type \in {"Next", "Prev", "Up", "Down"} :
            ~complete(St, completion_type).io.err =>
                CompletesWord(St, complete(St, completion_type))

\* The four cases where no redraw switches buffers (no search over a history
\* entry): the law holds in every such state.
CompleteWithoutHintOnOneBuffer ==
    (status = "reading" /\ ed.show_completions_hint = None
        /\ ~SearchOverHistoryEntry(St)) =>
        \A completion_type \in {"Next", "Prev", "Up", "Down"} :
            ~complete(St, completion_type).io.err =>
                CompletesWord(St, complete(St, completion_type))

\* The word spans a divider may give: up to MaxWords spans within
\* 0..MaxLen + 1, ascending and not overlapping.
MaxWords == 2

Spans == {sp \in (0..(MaxLen + 1)) \X (0..(MaxLen + 1)) : sp[1] <= sp[2]}

SpanLists ==
    UNION {{ws \in [1..n -> Spans] :
               \A k \in 1..(n - 1) : ws[k][2] <= ws[k + 1][1]} : n \in 0..MaxWords}

\* Word i (counted from 0) of the list is touched by c: c is on one of its
\* edges or inside it.
Touches(c, words, i) == words[i + 1][1] <= c /\ c <= words[i + 1][2]

\* The classification of c by the first word in scan order that c touches,
\* its left edge before its right edge.
ClassifiedBy(c, words, i) ==
    IF c = words[i + 1][1] THEN OnWordLeftEdge(i)
    ELSE IF c = words[i + 1][2] THEN OnWordRightEdge(i)
    ELSE InWord(i)

\* The last word ending before c and the first word starting after c, absent
\* at the ends.
WordsAround(c, words) ==
    LET before == {i \in 0..(Len(words) - 1) : words[i + 1][2] < c}
        after == {i \in 0..(Len(words) - 1) : c < words[i + 1][1]}
    IN  InSpace(IF before = {} THEN None
                ELSE Some(CHOOSE i \in before : \A j \in before : j <= i),
                IF after = {} THEN None
                ELSE Some(CHOOSE i \in after : \A j \in after : i <= j))

Classification(c, words) ==
    LET touched == {i \in 0..(Len(words) - 1) : Touches(c, words, i)}
    IN  IF touched = {} THEN WordsAround(c, words)
        ELSE ClassifiedBy(c, words, CHOOSE i \in touched : \A j \in touched : i <= j)

\* C34: for every cursor c and every ascending, non-overlapping list of word
\* spans, CursorPosition::get gives InWord(i) exactly when start_i < c < end_i,
\* OnWordLeftEdge(i) when c = start_i, OnWordRightEdge(i) when c = end_i (the
\* first match in scan order when an end and a start coincide with c), and
\* otherwise InSpace(l, r), l the last word ending before c and r the first
\* word starting after c, each absent at the ends; the empty list gives
\* InSpace(none, none).
C34_CursorPositionClassifies ==
    status = "reading" =>
        /\ CursorPosition_get(ed.cursor, <<>>) = InSpace(None, None)
        /\ CursorPosition_get(ed.cursor, word_divider_fn(cur_buf(St)))
              = Classification(ed.cursor, word_divider_fn(cur_buf(St)))
        /\ \A words \in SpanLists :
              LET pos == CursorPosition_get(ed.cursor, words)
              IN  /\ pos = Classification(ed.cursor, words)
                  /\ \A i \in 0..(Len(words) - 1) :
                        (pos = InWord(i))
                           = (words[i + 1][1] < ed.cursor /\ ed.cursor < words[i + 1][2])

\* C34, its case: the cursor stands inside the word the buffer consists of,
\* and, for a divider that cuts the line at the cursor, on the right edge of
\* the first word rather than on the left edge of the second.
C34_CursorInsideWord ==
    /\ status = "reading"
    /\ ed.cursor = 1
    /\ word_divider_fn(cur_buf(St)) = <<<<0, 2>>>>
    /\ CursorPosition_get(ed.cursor, word_divider_fn(cur_buf(St))) = InWord(0)
    /\ CursorPosition_get(ed.cursor, <<<<0, 1>>, <<1, 2>>>>) = OnWordRightEdge(0)
    /\ CursorPosition_get(ed.cursor, <<<<0, 0>>, <<2, 3>>>>) = InSpace(Some(0), Some(1))

\* ------------------------------------------------- the terminal's cursor

\* The terminal cursor, relative to the last line of the prompt: its line
\* (from 1) and its column; column w is the cursor waiting behind the last
\* cell of a full line.
term_print(p, n, w) ==
    IF n = 0 THEN p
    ELSE IF (p.col + n) % w = 0
    THEN [line |-> p.line + (p.col + n) \div w - 1, col |-> w]
    ELSE [line |-> p.line + (p.col + n) \div w, col |-> (p.col + n) % w]

term_crlf(p) == [line |-> p.line + 1, col |-> 0]

term_right(p, n, w) == [p EXCEPT !.col = Min(@ + n, w - 1)]

term_left(p, n, w) == [p EXCEPT !.col = Max(Min(@, w - 1) - n, 0)]

term_up(p, n, w) == [line |-> Max(p.line - n, 1), col |-> Min(p.col, w - 1)]

\* The widths of the lines _display prints: the autosuggestion's only when it
\* is to be shown.
printed_widths(s, show_autosuggest) ==
    IF show_autosuggest /\ IsSome(s.ed.autosuggestion)
    THEN buf_width(Unwrap(s.ed.autosuggestion))
    ELSE buf_width(cur_buf(s))

\* The loop of _display over the lines of the body, from line i on.
RECURSIVE print_lines(_, _, _, _, _)
print_lines(p, widths, i, prompt_width, w) ==
    IF i > Len(widths) THEN p
    ELSE print_lines(
            IF i < Len(widths)
            THEN term_crlf(term_print(IF i > 1 THEN term_right(p, prompt_width, w)
                                      ELSE p, widths[i], w))
            ELSE term_print(IF i > 1 THEN term_right(p, prompt_width, w) ELSE p,
                            widths[i], w),
            widths, i + 1, prompt_width, w)

\* The terminal cursor behind the prompt and the body, moved down a line when
\* the total width fills its last line.
print_body(s, show_autosuggest) ==
    LET w == s.io.width
        prompt_width == last_prompt_line_width(search_prompt(s).prompt)
        p == print_lines(term_print([line |-> 1, col |-> 0], prompt_width, w),
                         printed_widths(s, show_autosuggest), 1, prompt_width, w)
    IN  IF new_total_width(s) % w = 0 THEN term_crlf(p) ELSE p

\* The cursor moves _display ends with: up by cursor_line_diff, then left or
\* right by cursor_col_diff.
move_term_cursor(s, p) ==
    LET w == s.io.width
        line_diff == cursor_line_diff(new_total_width(s),
                                      new_total_width_to_cursor(s), w)
        col_diff == new_total_width(s) - new_total_width_to_cursor(s)
                    - line_diff * w
        p1 == IF line_diff > 0 THEN term_up(p, line_diff, w) ELSE p
    IN  IF col_diff > 0 THEN term_left(p1, col_diff, w)
        ELSE IF col_diff < 0 THEN term_right(p1, 0 - col_diff, w)
        ELSE p1

\* The terminal cursor a redraw of s leaves.
term_cursor(s, show_autosuggest) ==
    move_term_cursor(clamp_cursor(s), print_body(clamp_cursor(s), show_autosuggest))

\* The rows print_completion_list prints, counted by _display.
completion_lines(s) ==
    IF IsSome(s.ed.show_completions_hint)
    THEN 1 + (Len(HintOf(s).completions) - 1)
               \div completion_cols(HintOf(s).completions, s.io.width)
    ELSE 0

\* term_cursor_line after a redraw of s.
term_cursor_line(s) ==
    (new_total_width_to_cursor(clamp_cursor(s)) + s.io.width) \div s.io.width
    + completion_lines(s)

\* ------------------------------------------------------------------ C35

\* The state handle_newline redraws when it accepts the line of s.
Accepting(s) ==
    [clear_search(s) EXCEPT !.ed.cursor = num_chars(cur_buf(s)),
                            !.ed.no_newline = TRUE]

\* handle_newline accepts the line of s without a step in between.
Acceptable(s) ==
    /\ ~is_search(s)
    /\ s.ed.show_completions_hint = None
    /\ char_before(cur_buf(s), s.ed.cursor) # Some("\\")

\* The redraw of s is one that succeeds: it does not reach unreachable!().
Redrawn(s) ==
    cursor_line_diff(new_total_width(clamp_cursor(s)),
                     new_total_width_to_cursor(clamp_cursor(s)), s.io.width) >= 0

\* The place the cursor is to have on the terminal.
CursorCell(s) ==
    [line |-> (new_total_width_to_cursor(clamp_cursor(s)) + s.io.width)
                 \div s.io.width,
     col |-> new_total_width_to_cursor(clamp_cursor(s)) % s.io.width]

\* The rows of a grid of n candidates in cols columns.
GridRows(n, cols) == CHOOSE k \in 0..n : (k - 1) * cols < n /\ n <= k * cols

\* The redraw of s (with or without the autosuggestion shown) leaves the
\* terminal cursor on the cursor's cell, and term_cursor_line is the line of
\* that cell plus the rows of the grid.
CursorPlaced(s, show_autosuggest) ==
    /\ term_cursor(s, show_autosuggest) = CursorCell(s)
    /\ term_cursor_line(s) >= 1
    /\ term_cursor_line(s) = CursorCell(s).line
          + (IF IsSome(s.ed.show_completions_hint)
             THEN GridRows(Len(HintOf(s).completions),
                           completion_cols(HintOf(s).completions, s.io.width))
             ELSE 0)

\* C35: after a successful redraw at terminal width W the cursor moves emitted
\* behind the body place the terminal cursor on line (width_to_cursor + W) / W
\* of the prompt-and-buffer block at column width_to_cursor mod W, for every
\* total width and cursor width (totals that are a multiple of W included);
\* term_cursor_line is then that line plus the number of rows of the
\* completion grid, and at least 1.
C35_CursorPlacedByRedraw ==
    status = "reading" =>
        \A w \in Widths :
            /\ Redrawn([St EXCEPT !.io.width = w]) =>
                  CursorPlaced([St EXCEPT !.io.width = w], TRUE)
            /\ (Acceptable(St) /\ Redrawn(Accepting([St EXCEPT !.io.width = w]))) =>
                  CursorPlaced(Accepting([St EXCEPT !.io.width = w]), FALSE)

\* The prompt is narrower than the terminal, so that the move to the right in
\* front of a continuation line is not cut short at the right margin.
PromptFits(s) ==
    \/ last_prompt_line_width(search_prompt(s).prompt) < s.io.width
    \/ Len(buf_widths(s)) = 1

\* What the redraw achieves: the cursor moves end on the cursor's cell where
\* the prompt fits the terminal and the body printed is the one measured (the
\* redraw of an accepted line measures an autosuggestion it does not print).
CursorPlacedWhereBodyIsMeasured ==
    status = "reading" =>
        \A w \in Widths :
            /\ (PromptFits([St EXCEPT !.io.width = w])
                  /\ Redrawn([St EXCEPT !.io.width = w])) =>
                  CursorPlaced([St EXCEPT !.io.width = w], TRUE)
            /\ (Acceptable(St)
                  /\ PromptFits(Accepting([St EXCEPT !.io.width = w]))
                  /\ printed_widths(Accepting(St), FALSE) = buf_widths(Accepting(St))
                  /\ Redrawn(Accepting([St EXCEPT !.io.width = w]))) =>
                  CursorPlaced(Accepting([St EXCEPT !.io.width = w]), FALSE)

\* ------------------------------------------------------------------ C36

\* C36: the thread-local scratch buffer is empty whenever an operation of the
\* editor has returned, whether its redraw succeeded or failed: the bytes one
\* redraw has staged are written once and never by a later redraw.
C36_ScratchBufferEmptyOnReturn == ~io.staged

\* What extract (called last in _display) achieves: the scratch buffer is empty
\* after every operation that returned without a failure, and after a failed
\* write or flush.
ScratchBufferEmptyAfterRedraw == status # "error" => ~io.staged

\* ------------------------------------------------------------------ C37

\* Keys that push and pop modes, typed on from a state.
ModeKeys ==
    {<<>>, <<"c", "c">>, <<"d", "c">>, <<"c", "Esc">>, <<"c", "l">>,
     <<"r", "Esc">>, <<"C", "Esc", ".">>, <<".">>}

\* no_eol is set exactly in Normal mode, Normal mode is the empty stack, and
\* the stack holds no Normal and at most two entries.
ModeStackInvariant(s) ==
    /\ s.ed.no_eol = (mode(s).m = "Normal")
    /\ (mode(s).m = "Normal") = (s.vi.mode_stack = <<>>)
    /\ \A i \in 1..Len(s.vi.mode_stack) : s.vi.mode_stack[i].m # "Normal"
    /\ Len(s.vi.mode_stack) <= 2

ModeStackKept(r) == ~r.io.err => ModeStackInvariant(r)

\* C37: between two keys handled by the Vi keymap, no_eol is true exactly when
\* the mode of the keymap is Normal (the mode stack is empty), and the mode
\* stack never holds Normal nor more than two entries.
C37_NoEolExactlyInNormalMode ==
    status = "reading" =>
        \A keys \in ModeKeys :
            ModeStackKept(simulate_keys(St, keys))

\* C37, its case: an operator waits for its movement on top of the Insert mode
\* that `c` has scheduled: two entries, and no_eol is off.
C37_ChangePending ==
    /\ status = "reading"
    /\ Len(vi.mode_stack) = 2
    /\ vi.mode_stack[1].m = "Insert" /\ vi.mode_stack[2].m = "Delete"
    /\ ~ed.no_eol
    /\ last = "c"
    /\ simulate_keys(St, <<"c">>).vi.mode_stack = <<Insert>>
    /\ simulate_keys(St, <<"Esc">>).vi.mode_stack = <<>>
    /\ simulate_keys(St, <<"Esc">>).ed.no_eol

\* ------------------------------------------------------------------ C38

\* The commands `.` repeats: an insert, x, D, r<char>, d and c with a
\* movement, and C with and without text typed behind it.
CommandsWithoutC ==
    {<<"i", "a", "Esc">>, <<"x">>, <<"D">>, <<"r", "x">>, <<"d", "l">>,
     <<"c", "l", "x", "Esc">>}

CommandsWithC == {<<"C", "Esc">>, <<"C", "x", "Esc">>}

\* After `.` handled in s the keymap is in Normal mode with count 0 and the
\* last command it had in s.
DotReturnsToNormal(s, r) ==
    /\ ~r.io.err
    /\ r.vi.mode_stack = <<>> /\ mode(r).m = "Normal"
    /\ r.ed.no_eol
    /\ r.vi.count = u32(0)
    /\ r.vi.last_command = s.vi.last_command

\* `.` pressed in s, a state of Normal mode with a recorded command.
DotPressed(s) ==
    (~s.io.err /\ ~s.ret /\ mode(s).m = "Normal" /\ s.vi.last_command # <<>>) =>
        DotReturnsToNormal(s, handle_key_core(s, "."))

\* C38: after `.` has been handled in Normal mode the keymap is in Normal mode
\* again (mode stack empty, no_eol true) with count 0, and last_command holds
\* the keys it held before the repeat, whatever command was recorded last: an
\* insert, x, D, C, r<char> or d/c with a movement.
C38_DotReturnsToNormalMode ==
    AtNormalCommand =>
        \A cmd \in CommandsWithoutC \cup CommandsWithC :
            DotPressed(simulate_keys(St, cmd))

\* The recorded command of s is C, or an operator moved by 0 (which `.`, typing
\* a count in front of the operator, turns into a digit).
RecordedC(s) == s.vi.last_command # <<>> /\ s.vi.last_command[1] = "C"

RecordedOperatorTo0(s) ==
    /\ s.vi.last_command # <<>>
    /\ s.vi.last_command[1] = "d" \/ s.vi.last_insert = Some("c")
    /\ \E i \in 1..Len(s.vi.last_command) : s.vi.last_command[i] = "0"

DotPressedUnlessC(s) ==
    (~RecordedC(s) /\ ~RecordedOperatorTo0(s)) => DotPressed(s)

\* `.` after every recorded command but C and an operator moved by 0 returns
\* to Normal mode.
DotReturnsToNormalModeUnlessC ==
    AtNormalCommand =>
        \A cmd \in CommandsWithoutC \cup CommandsWithC :
            DotPressedUnlessC(simulate_keys(St, cmd))

\* `.` after C: the keymap stays in Insert mode, on a line cut at the cursor.
DotAfterCStaysInInsertMode ==
    AtNormalCommand =>
        \A cmd \in CommandsWithC :
            LET s == simulate_keys(St, cmd)
                r == handle_key_core(s, ".")
            IN  (~s.io.err /\ ~s.ret /\ mode(s).m = "Normal" /\ ~r.io.err) =>
                    /\ mode(r).m = "Insert" /\ ~r.ed.no_eol
                    /\ r.vi.last_command = s.vi.last_command

\* ------------------------------------------------------------------ C39

\* The undo groups a buffer has open: the groups started and not ended in its
\* log of actions.
RECURSIVE OpenGroups(_)
OpenGroups(actions) ==
    IF actions = <<>> THEN 0
    ELSE OpenGroups(Tail(actions))
         + (IF actions[1].t = "StartGroup" THEN 1
            ELSE IF actions[1].t = "EndGroup" THEN -1 ELSE 0)

\* Every buffer of s has each of its groups closed.
GroupsBalanced(s) ==
    /\ OpenGroups(s.ed.new_buf.actions) = 0
    /\ \A i \in 1..Len(s.ctx.history) : OpenGroups(s.ctx.history[i].actions) = 0

\* C39: undo-group bracketing is balanced: whenever the keymap is in Normal
\* mode between two keys, every start_undo_group it issued on a buffer has
\* been matched by an end_undo_group on that buffer, for every key sequence,
\* an aborted `c` operator and history moves in Insert mode included.
C39_UndoGroupsBalanced ==
    (status = "reading" /\ nkeys = 0) =>
        \A keys \in {<<"Esc">>, <<"Up", "Esc">>, <<"x", "Up", "Down", "Esc">>,
                     <<"Esc", "c", "l", "x", "Esc">>, <<"Esc", "c", "Esc">>} :
            GroupsBalanced(simulate_keys(St, keys))

\* The keys the bracketing is followed over, and every sequence of at most
\* four of them.
GroupKeys == {"Esc", "i", "x", "Up", "Down", "d", "l", "u", "C", "c", "."}

GroupKeySeqs == UNION {[1..n -> GroupKeys] : n \in 0..4}

\* A `c` of keys is followed by a key that is neither a movement nor `c`.
AbortsChange(keys) ==
    \E i \in 1..Len(keys) :
        keys[i] = "c" /\ i < Len(keys) /\ keys[i + 1] \notin {"c", "l"}

BalancedInNormal(r) == (mode(r).m = "Normal") => GroupsBalanced(r)

\* The bracketing is balanced in Normal mode after every sequence of keys in
\* which no `c` operator is aborted.
UndoGroupsBalancedUnlessChangeAborted ==
    (status = "reading" /\ nkeys = 0) =>
        \A keys \in GroupKeySeqs :
            AbortsChange(keys) \/ BalancedInNormal(simulate_keys(St, keys))

\* ------------------------------------------------------------------ C40

\* Pressing Down at most n times from s comes back to new_buf.
RECURSIVE DownReturns(_, _)
DownReturns(s, n) ==
    \/ s.ed.cur_history_loc = None
    \/ n > 0 /\ DownReturns(move_down(s), n - 1)

\* A history entry is selected, with no search active and no completions
\* hint shown.
EntrySelected(s) ==
    /\ IsSome(s.ed.cur_history_loc)
    /\ ~is_search(s)
    /\ s.ed.show_completions_hint = None

\* C40: from every reachable state in which a history entry is selected, no
\* search is active and no completions hint is shown, pressing Down
\* repeatedly returns to new_buf after at most history.len() presses, also
\* after Ctrl-L (clear) cleared the search and subset state while the entry
\* was selected.
C40_DownReturnsToNewBuf ==
    (status = "reading" /\ EntrySelected(St)) =>
        /\ DownReturns(St, history_len(St))
        /\ DownReturns(clear(St), history_len(St))

\* The entry was reached with new_buf empty, or by moving through the subset
\* of entries that start with new_buf and the subset is still held.
SubsetHeldOrNewBufEmpty(s) ==
    num_chars(s.ed.new_buf) = 0 \/ IsSome(s.ed.history_subset_loc)

\* Down returns to new_buf within history.len() presses where new_buf is
\* empty or the subset is still held; after clear, where new_buf is empty.
DownReturnsToNewBufWhereSubsetHeld ==
    (status = "reading" /\ EntrySelected(St)) =>
        /\ SubsetHeldOrNewBufEmpty(St) => DownReturns(St, history_len(St))
        /\ num_chars(St.ed.new_buf) = 0 => DownReturns(clear(St), history_len(St))

\* Down never leaves an entry selected over a new_buf that holds text once
\* the subset was cleared.
DownStuckOnceSubsetCleared ==
    (status = "reading" /\ EntrySelected(St) /\ ~SubsetHeldOrNewBufEmpty(St)) =>
        move_down(St).ed.cur_history_loc = St.ed.cur_history_loc

====
